---- MODULE Spec2Model ----
(***************************************************************************)
(* Model of the scipion-em-motioncorr plugin: validation of the frame      *)
(* range, construction of the motioncor command line, movement of the      *)
(* program's output files, the streaming batch pipeline of                 *)
(* ProtMotionCorrTasks and Plugin.versionGE.                               *)
(*                                                                         *)
(* The specifications below share one list of variables:                   *)
(*   SpecCmd      one protocol run: _validate, input conversion,           *)
(*                _processMovie / _getCmd, _moveOutput / _moveBatchOutput  *)
(*   SpecPipeline ProtMotionCorrTasks._processAllMoviesStep                *)
(*   SpecBatches  the generator thread of the pipeline alone               *)
(*   SpecVersion  Plugin.versionGE                                         *)
(*   SpecParse    parseMovieAlignment2 and parseEERDefects                 *)
(*   SpecWorker   the steps of ProtMotionCorr and its extra-work threads   *)
(*   SpecTs       ProtTsMotionCorr: _validate and processTiltImageStep     *)
(*   SpecFailure  runs of both protocols with fair threads                 *)
(*   SpecExtra    the command text of each protocol with extraParams2      *)
(* Variables a specification does not use keep their initial value.        *)
(***************************************************************************)
EXTENDS Integers, Sequences, FiniteSets, TLC

\* ------------------------------------------------------------------ bounds
MaxFrames == 4      \* movies have 1..MaxFrames frames
MaxComp == 11       \* minor and patch version components range over 0..MaxComp
MaxMovies == 2      \* the import adds movies while the input set holds fewer
MaxInitial == 4     \* the generator alone starts with 0..MaxInitial input movies
MaxBatchSize == 2   \* streamingBatchSize ranges over 0..MaxBatchSize
MaxGpus == 2        \* the GPU list holds 1..MaxGpus ids
MaxLines == 3       \* an alignment log has 0..MaxLines lines
MaxCols == 4        \* a log line has 0..MaxCols columns
MaxItems == 2       \* the metadata of a gain file has 0..MaxItems items
MaxExtra == 3       \* extraParams2 has 0..MaxExtra pieces
MaxWork == 11       \* the extra work of a movie takes 0..MaxWork seconds

VARIABLES
    \* --- one protocol run (SpecCmd)
    prot,           \* the protocol's parameters and attributes
    formFrameN,     \* alignFrameN as entered in the form
    stage,          \* how far the run got
    errors,         \* result of the last _validate
    prevErrors,     \* result of the _validate before it
    nValidate,      \* number of _validate calls so far
    movieExt,       \* extension of the movie file handed to _processMovie
    cmd,            \* the arguments of the command built (option -> value)
    raised,         \* message of the exception raised, "" if none
    tried,          \* kinds of files the move looked for
    moved,          \* kinds of files moved to the extra folder
    outputs,        \* the micrograph outputs the run declares
    \* --- Plugin.versionGE (SpecVersion)
    activeVersion, queryVersion, geResult, geCalls,
    \* --- streaming pipeline (SpecPipeline)
    batchSize,      \* streamingBatchSize
    gpus,           \* getGpuList()
    inputSet,       \* the input SetOfMovies holds movies 1..inputSet
    streamClosed,   \* the input set's stream state
    gen,            \* the generator thread: _generateBatches over _loadInputMovies
    yielded,        \* movies yielded by _loadInputMovies, in order
    batches,        \* batches created by _createBatch, in order
    genQueue,       \* g.outputQueue
    proc,           \* the processor threads, one per entry of gpus
    runs,           \* every runJob call made by a processor
    outQueue,       \* mc1.outputQueue
    mover,          \* the thread running _moveBatchOutput
    processed, registered, lock,
    folders,        \* indexes of the batches whose tmp folder exists
    batchFiles,     \* files the program wrote, per batch index
    extraFiles,     \* files in the extra folder
    outputMovies,   \* ids of the movies in the output sets
    updates,        \* the _updateOutputSets calls, in order
    noClean,        \* SCIPION_DEBUG_NOCLEAN is on
    mainpc,         \* position of _processAllMoviesStep
    \* --- convert.py (SpecParse)
    logFile,        \* the lines of the alignment log handed to parseMovieAlignment2
    shifts,         \* what parseMovieAlignment2 returned or raised
    gainTags,       \* name and XML items of the gain file handed to parseEERDefects
    defects,        \* what parseEERDefects returned, and the defects file written
    convpc,         \* which of the two has been called
    \* --- the worker thread of ProtMotionCorr (SpecWorker)
    extraProtocolParams,  \* the options of the 'Additional protocol parameters'
    steps,          \* the steps inserted, in order, with their status
    threads,        \* seconds of work left in each extra-work thread started
    inlineWork,     \* movies whose extra work ran inside the movie step
    sleepLeft,      \* seconds left of the sleep of waitForThreadStep
    \* --- ProtTsMotionCorr, one tilt image (SpecTs)
    tsProt,         \* the protocol's parameters and the input's dose and format
    tsStage,        \* how far the run got
    tsErrors,       \* what _validate returned
    tsRaised,       \* message of the exception raised, "" if none
    tsWritten,      \* the files the program wrote for the tilt image
    tsExtra,        \* the files of the tilt image in the extra folder
    tsFolder,       \* the working folder of the tilt image exists
    \* --- the command line as text (SpecExtra)
    xpClass,        \* the protocol class that builds the command
    extraParams2,   \* the 'Additional parameters' of the form
    cmdLine,        \* the text handed to runJob
    argv,           \* the arguments the program is started with
    xppc            \* how far the run got

cmdVars == <<prot, formFrameN, stage, errors, prevErrors, nValidate, movieExt, cmd, raised, tried,
             moved, outputs>>
verVars == <<activeVersion, queryVersion, geResult, geCalls>>
pipeVars == <<batchSize, gpus, inputSet, streamClosed, gen, yielded, batches, genQueue,
              proc, runs, outQueue, mover, processed, registered, lock, folders,
              batchFiles, extraFiles, outputMovies, updates, noClean, mainpc>>
convVars == <<logFile, shifts, gainTags, defects, convpc>>
wtVars == <<extraProtocolParams, steps, threads, inlineWork, sleepLeft>>
tsVars == <<tsProt, tsStage, tsErrors, tsRaised, tsWritten, tsExtra, tsFolder>>
xpVars == <<xpClass, extraParams2, cmdLine, argv, xppc>>
extVars == <<convVars, wtVars, tsVars, xpVars>>
vars == <<cmdVars, verVars, pipeVars, extVars>>

\* ------------------------------------------------------------ Plugin.versionGE
\* A version string a.b.c is modelled by its components <<a, b, c>>; the
\* major number of every release of the program is 1.
Versions == {<<1, b, c>> : b \in 0..MaxComp, c \in 0..MaxComp}

\* Number of decimal digits of the component n, as str(n) writes it.
Digits(n) == IF n < 10 THEN 1 ELSE IF n < 100 THEN 2 ELSE 3

Pow10(d) == IF d = 1 THEN 10 ELSE IF d = 2 THEN 100 ELSE 1000

\* int(version.replace('.', '')): the digits of the components, concatenated.
DotlessInt(v) == (v[1] * Pow10(Digits(v[2])) + v[2]) * Pow10(Digits(v[3])) + v[3]

\* Plugin.versionGE with getActiveVersion() = active.
versionGE(active, version) ==
    LET v1 == DotlessInt(active)
        v2 == DotlessInt(version)
    IN  IF v1 < v2 THEN FALSE ELSE TRUE

\* Semantic-version order, component by component.
SemverGE(a, b) ==
    \/ a[1] > b[1]
    \/ a[1] = b[1] /\ a[2] > b[2]
    \/ a[1] = b[1] /\ a[2] = b[2] /\ a[3] >= b[3]

\* --------------------------------------------------- parameters of one run
McClass == "ProtMotionCorr"
TasksClass == "ProtMotionCorrTasks"

\* File extensions as pwutils.getExt returns them ("" for a name without one).
Exts == {".mrc", ".mrcs", ".tif", ".tiff", ".eer", ".MRC", ".EER", ".em", ""}

\* str.lower() on the extensions of Exts.
Lower(ext) == CASE ext = ".MRC" -> ".mrc" [] ext = ".EER" -> ".eer" [] OTHER -> ext

\* The motioncor versions a run may have active.
CmdVersions == {<<1, 1, 2>>, <<1, 6, 4>>}

\* acq.getDosePerFrame(): None, below 0.00001, or a usable dose.
Doses == {"None", "zero", "ok"}

EerGroupDefault == 32

Prots ==
    [cls : {McClass, TasksClass}, ext : Exts, N : 1..MaxFrames,
     alignFrame0 : 0..(MaxFrames + 1), alignFrameN : 0..(MaxFrames + 1),
     doApplyDoseFilter : BOOLEAN, doSaveUnweightedMic : BOOLEAN,
     splitEvenOdd : BOOLEAN, eerSampling : 0..2, eerGroup : {EerGroupDefault},
     dose : Doses, version : CmdVersions, isEER : {FALSE}]

\* ------------------------------------------------- ProtMotionCorr._validate
MsgRange == "Frames range must be within 1 - lastFrame"
MsgEerRange == "For EER data please set frame range from 1 to 0 (or 1 to lastFrame)."
MsgEerVersion == "EER is only supported for motioncor2 v1.4.0 or newer."
MsgDose == "Input movies do not contain the dose per frame, dose-weighting can not be performed."

\* self.isEER = pwutils.getExt(firstMovie.getFileName()) == ".eer"
validateIsEER(p) == p.ext = ".eer"

\* if self.alignFrameN.get() == 0: self.alignFrameN.set(lastFrame)
validateFrameN(p) == IF p.alignFrameN = 0 THEN p.N ELSE p.alignFrameN

eerErrors(p) ==
    IF validateIsEER(p)
    THEN (IF ~versionGE(p.version, <<1, 4, 0>>) THEN <<MsgEerVersion>> ELSE <<>>)
         \o (IF p.alignFrame0 # 1 \/ p.alignFrameN \notin {0, p.N}
             THEN <<MsgEerRange>> ELSE <<>>)
    ELSE <<>>

rangeErrors_NoElif(a0, aN, lastFrame) ==
    (IF ~(1 <= a0 /\ a0 < lastFrame) THEN <<MsgRange>> ELSE <<>>)
    \o (IF ~(aN <= lastFrame) THEN <<MsgRange>> ELSE <<>>)
    \o (IF ~(a0 < aN) THEN <<MsgRange>> ELSE <<>>)

\* The if / elif / elif chain on the frame range, aN already replaced.
rangeErrors(a0, aN, lastFrame) ==
    IF ~(1 <= a0 /\ a0 < lastFrame) THEN <<MsgRange>>
    ELSE IF ~(aN <= lastFrame) THEN <<MsgRange>>
    ELSE IF ~(a0 < aN) THEN <<MsgRange>>
    ELSE <<>>

doseErrors(p) ==
    IF p.doApplyDoseFilter /\ (p.dose = "None" \/ p.dose = "zero")
    THEN <<MsgDose>> ELSE <<>>

\* The errors _validate returns. The checks of the movie file's existence, of
\* the EMAN2 plugin and of the gain dimensions read the file system only and
\* append their own messages; they are left out.
validateErrors(p) ==
    eerErrors(p) \o rangeErrors(p.alignFrame0, validateFrameN(p), p.N) \o doseErrors(p)

\* The protocol after _validate: isEER and alignFrameN are assigned.
validated(p) == [p EXCEPT !.isEER = validateIsEER(p), !.alignFrameN = validateFrameN(p)]

\* ----------------------------------------------------- building the command
getConvertExtension_KeepsEm(ext) ==
    IF Lower(ext) \in {".mrc", ".mrcs", ".tiff", ".tif", ".eer", ".em"} THEN "None" ELSE "mrc"

\* ProtMotionCorr._getConvertExtension: "None" or the extension to convert to.
getConvertExtension(ext) ==
    IF Lower(ext) \in {".mrc", ".mrcs", ".tiff", ".tif", ".eer"} THEN "None" ELSE "mrc"

\* Extension of the movie handed to _processMovie: the framework converts
\* the movie to the extension _getConvertExtension names.
convertedExt(ext) == IF getConvertExtension(ext) = "None" THEN ext ELSE ".mrc"

\* ProtMotionCorr._getFrameRange / ProtMotionCorrBase._getFramesRange
getFrameRange(p) ==
    IF p.isEER THEN <<p.alignFrame0, p.alignFrameN \div p.eerGroup>>
    ELSE <<p.alignFrame0, p.alignFrameN>>

\* dict.update: the entries of new replace or extend those of old.
Update(old, new) == new @@ old

\* ProtMotionCorr._getArgs, for the options whose value the run's parameters
\* decide (patch, mask, binning, tolerance, pixel size, voltage, gain, dark and
\* defect options copy their parameter and are left out).
getArgs(p) ==
    LET base == ("-OutStack" :> 0) @@ ("-Gpu" :> "%(GPU)s") @@ ("-SumRange" :> "0.0 0.0")
    IN  IF p.isEER
        THEN Update(base, ("-EerSampling" :> (p.eerSampling + 1))
                          @@ ("-FmIntFile" :> "../../extra/FmIntFile.txt"))
        ELSE IF p.doApplyDoseFilter
        THEN Update(base, ("-FmDose" :> "dose") @@ ("-InitDose" :> "preExp"))
        ELSE base

throwTrunc_Swapped(p) ==
    LET r == getFrameRange(p)
    IN  ("-Throw" :> (IF p.isEER THEN 0 ELSE p.N - r[2]))
        @@ ("-Trunc" :> (IF p.isEER THEN 0 ELSE r[1] - 1))

\* '-Throw': 0 if isEER else frame0 - 1, '-Trunc': 0 if isEER else
\* numbOfFrames - frameN (the same in _processMovie and _getMcArgs).
throwTrunc(p) ==
    LET r == getFrameRange(p)
    IN  ("-Throw" :> (IF p.isEER THEN 0 ELSE r[1] - 1))
        @@ ("-Trunc" :> (IF p.isEER THEN 0 ELSE p.N - r[2]))

\* The -In* option _processMovie picks for the movie's extension, "" when it
\* raises "Unsupported format".
inputOption(ext) ==
    IF Lower(ext) \in {".mrc", ".mrcs"} THEN "-InMrc"
    ELSE IF Lower(ext) \in {".tif", ".tiff"} THEN "-InTiff"
    ELSE IF Lower(ext) = ".eer" THEN "-InEer"
    ELSE ""

\* ProtMotionCorr._processMovie up to runJob: the arguments of the command.
processMovieArgs(p, ext) ==
    LET a1 == Update(getArgs(p), ("-OutMrc" :> "aligned_mic") @@ throwTrunc(p))
        a2 == IF versionGE(p.version, <<1, 4, 7>>)
              THEN Update(a1, "-LogDir" :> "./")
              ELSE Update(a1, "-LogFile" :> "movieRoot_")
        a3 == IF p.splitEvenOdd THEN Update(a2, "-SplitSum" :> 1) ELSE a2
    IN  Update(a3, inputOption(ext) :> "movie")

\* ProtMotionCorrBase._getMcArgs, for the same options as getArgs.
getMcArgs(p) ==
    LET a1 == throwTrunc(p) @@ ("-OutStack" :> 0) @@ ("-Gpu" :> "%(GPU)s")
              @@ ("-SumRange" :> "0.0 0.0") @@ ("-LogDir" :> "./")
        a2 == IF p.isEER
              THEN Update(a1, ("-EerSampling" :> (p.eerSampling + 1))
                              @@ ("-FmIntFile" :> "../../extra/FmIntFile.txt"))
              ELSE a1
        a3 == IF p.doApplyDoseFilter
              THEN Update(a2, ("-InitDose" :> "preExp")
                              @@ (IF p.isEER THEN <<>> ELSE ("-FmDose" :> "dose")))
              ELSE a2
    IN  IF p.splitEvenOdd THEN Update(a3, "-SplitSum" :> 1) ELSE a3

\* The -In* option ProtMotionCorrTasks._getCmd picks for the first movie's
\* extension, "" when it raises "Unsupported format ... for batch processing".
batchInputOption(ext) ==
    IF Lower(ext) \in {".mrc", ".mrcs"} THEN "-InMrc"
    ELSE IF Lower(ext) \in {".tif", ".tiff"} THEN "-InTiff"
    ELSE ""

\* ProtMotionCorrTasks._getCmd when it does not raise.
getCmd(p) ==
    LET a1 == Update(getMcArgs(p), ("-Gpu" :> "#") @@ ("-Serial" :> 1))
        a2 == IF p.isEER
              THEN Update(a1, ("-EerSampling" :> (p.eerSampling + 1))
                              @@ ("-FmIntFile" :> "../../extra/FmIntFile.txt"))
              ELSE a1
        a3 == IF p.doApplyDoseFilter
              THEN Update(a2, ("-FmDose" :> "dose") @@ ("-InitDose" :> "preExp"))
              ELSE a2
    IN  Update(a3, (batchInputOption(p.ext) :> "./") @@ ("-OutMrc" :> "output_"))

\* ------------------------------------------------ outputs and moved files
\* Kinds of files motioncor writes for a movie: the alignment log, the plain
\* and the dose-weighted micrograph, the star file, the even and odd sums.
Kinds == {"log", "mic", "DW", "star", "EVN", "ODD"}

\* What one run of the program may leave behind.
ProgramOutputs == {Kinds, {}, {"log"}, Kinds \ {"log"}, Kinds \ {"mic", "DW"}}

createOutputWeightedMicrographs(p) == p.doApplyDoseFilter

createOutputMicrographs(p) ==
    ~createOutputWeightedMicrographs(p) \/ p.doSaveUnweightedMic

doSaveUnweightedMic(p) == createOutputWeightedMicrographs(p) /\ p.doSaveUnweightedMic

\* The micrograph outputs the protocol declares.
declaredOutputs(p) ==
    (IF createOutputWeightedMicrographs(p) THEN {"outputMicrographsDoseWeighted"} ELSE {})
    \cup (IF createOutputMicrographs(p) THEN {"outputMicrographs"} ELSE {})

getMicFn(p) == IF p.doApplyDoseFilter THEN "DW" ELSE "mic"

\* The files ProtMotionCorr._moveOutput passes to _moveToExtra (doSaveMovie off).
moveOutputFiles(p) ==
    {"log", getMicFn(p), "star"}
    \cup (IF doSaveUnweightedMic(p) THEN {"mic"} ELSE {})
    \cup (IF p.splitEvenOdd THEN {"EVN", "ODD"} ELSE {})

moveBatchFiles_NoPlainWithoutDose(p) ==
    (IF p.doApplyDoseFilter THEN {"DW"} ELSE {})
    \cup (IF doSaveUnweightedMic(p) THEN {"mic"} ELSE {})
    \cup (IF p.splitEvenOdd THEN {"EVN", "ODD"} ELSE {})
    \cup {"log"}

\* The files _moveMovieFiles of ProtMotionCorrTasks._moveBatchOutput passes
\* to _moveToExtra for one movie.
moveBatchFiles(p) ==
    (IF p.doApplyDoseFilter THEN {"DW"} ELSE {})
    \cup (IF ~p.doApplyDoseFilter \/ doSaveUnweightedMic(p) THEN {"mic"} ELSE {})
    \cup (IF p.splitEvenOdd THEN {"EVN", "ODD"} ELSE {})
    \cup {"log"}

\* ------------------------------------------------------- SpecCmd: one run
NoCmd == "-" :> "-"

VerIdle ==
    /\ activeVersion = <<1, 0, 0>> /\ queryVersion = <<1, 0, 0>>
    /\ geResult = TRUE /\ geCalls = 0

PipeIdle ==
    /\ batchSize = 1 /\ gpus = <<"0">> /\ inputSet = 0 /\ streamClosed = FALSE
    /\ gen = [pc |-> "off"] /\ yielded = <<>> /\ batches = <<>> /\ genQueue = <<>>
    /\ proc = <<>> /\ runs = <<>> /\ outQueue = <<>> /\ mover = [pc |-> "off"]
    /\ processed = 0 /\ registered = 0 /\ lock = 0 /\ folders = {}
    /\ batchFiles = <<>> /\ extraFiles = {} /\ outputMovies = {} /\ updates = <<>>
    /\ noClean = FALSE /\ mainpc = "off"

\* Nothing has been parsed.
ConvIdle ==
    /\ logFile = <<>> /\ shifts = [raised |-> "", x |-> <<>>, y |-> <<>>]
    /\ gainTags = [ext |-> "", meta |-> FALSE, items |-> <<>>]
    /\ defects = [raised |-> "", entries |-> <<>>, file |-> <<>>, written |-> FALSE]
    /\ convpc = "idle"

\* No step has been inserted.
WtIdle ==
    /\ extraProtocolParams = {} /\ steps = <<>> /\ threads = <<>>
    /\ inlineWork = {} /\ sleepLeft = 0

\* No tilt-series protocol is run.
TsIdle ==
    /\ tsProt = [doApplyDoseFilter |-> FALSE, doSaveUnweightedMic |-> TRUE,
                 dose |-> "ok", ext |-> ".mrc", noClean |-> FALSE]
    /\ tsStage = "off" /\ tsErrors = <<>> /\ tsRaised = "" /\ tsWritten = {}
    /\ tsExtra = {} /\ tsFolder = FALSE

\* No command text has been built.
XpIdle ==
    /\ xpClass = McClass /\ extraParams2 = <<>> /\ cmdLine = <<>> /\ argv = <<>>
    /\ xppc = "off"

ExtIdle == ConvIdle /\ WtIdle /\ TsIdle /\ XpIdle

CmdIdle ==
    /\ stage = "new" /\ errors = <<>> /\ prevErrors = <<>> /\ nValidate = 0
    /\ movieExt = "" /\ cmd = NoCmd /\ raised = "" /\ tried = {} /\ moved = {}
    /\ outputs = {}

InitCmd ==
    /\ prot \in Prots
    /\ formFrameN = prot.alignFrameN
    /\ CmdIdle /\ VerIdle /\ PipeIdle /\ ExtIdle

\* The framework calls _validate before it launches the run, and again
\* whenever the form is saved or the run restarted.
Validate ==
    /\ stage \in {"new", "validated"}
    /\ nValidate < 2
    /\ prevErrors' = errors
    /\ errors' = validateErrors(prot)
    /\ prot' = validated(prot)
    /\ nValidate' = nValidate + 1
    /\ stage' = "validated"
    /\ UNCHANGED <<formFrameN, movieExt, cmd, raised, tried, moved, outputs>>

\* The framework's movie step of ProtMotionCorr: the movie is converted as
\* _getConvertExtension says, then handed to _processMovie.
ConvertMovie ==
    /\ stage = "validated" /\ errors = <<>>
    /\ prot.cls = McClass
    /\ movieExt' = convertedExt(prot.ext)
    /\ stage' = "converted"
    /\ UNCHANGED <<prot, formFrameN, errors, prevErrors, nValidate, cmd, raised, tried, moved,
                   outputs>>

\* ProtMotionCorr._processMovie: build the arguments, run the program, move
\* its output; a failure of the program is caught and logged.
ProcessMovie ==
    /\ stage = "converted"
    /\ IF inputOption(movieExt) = ""
       THEN /\ raised' = "Unsupported format"
            /\ stage' = "failed"
            /\ UNCHANGED <<cmd, tried, moved, outputs>>
       ELSE /\ cmd' = processMovieArgs(prot, movieExt)
            /\ raised' = ""
            /\ \/ /\ stage' = "runFailed"
                  /\ UNCHANGED <<tried, moved, outputs>>
               \/ \E written \in ProgramOutputs :
                      /\ tried' = moveOutputFiles(prot)
                      /\ moved' = moveOutputFiles(prot) \cap written
                      /\ outputs' = declaredOutputs(prot)
                      /\ stage' = "moved"
    /\ UNCHANGED <<prot, formFrameN, errors, prevErrors, nValidate, movieExt>>

\* ProtMotionCorrTasks: _getCmd at the start of _processAllMoviesStep, then
\* one batch of one movie run and moved by _moveBatchOutput.
ProcessBatch ==
    /\ stage = "validated" /\ errors = <<>>
    /\ prot.cls = TasksClass
    /\ IF batchInputOption(prot.ext) = ""
       THEN /\ raised' = "Unsupported format for batch processing"
            /\ stage' = "failed"
            /\ UNCHANGED <<cmd, tried, moved, outputs>>
       ELSE /\ cmd' = getCmd(prot)
            /\ raised' = ""
            /\ \/ /\ stage' = "runFailed"
                  /\ UNCHANGED <<tried, moved, outputs>>
               \/ \E written \in ProgramOutputs :
                      /\ tried' = moveBatchFiles(prot)
                      /\ moved' = moveBatchFiles(prot) \cap written
                      /\ outputs' = declaredOutputs(prot)
                      /\ stage' = "moved"
    /\ UNCHANGED <<prot, formFrameN, errors, prevErrors, nValidate, movieExt>>

NextCmd ==
    \/ (Validate /\ UNCHANGED <<verVars, pipeVars, extVars>>)
    \/ (ConvertMovie /\ UNCHANGED <<verVars, pipeVars, extVars>>)
    \/ (ProcessMovie /\ UNCHANGED <<verVars, pipeVars, extVars>>)
    \/ (ProcessBatch /\ UNCHANGED <<verVars, pipeVars, extVars>>)

SpecCmd == InitCmd /\ [][NextCmd]_vars

\* The run got as far as building its command and running the program.
Built == stage \in {"runFailed", "moved"}

\* Number of times msg occurs in the sequence msgs.
Count(msg, msgs) == Cardinality({i \in 1..Len(msgs) : msgs[i] = msg})

\* C4: for a non-EER movie with N frames and a validated range (a0, aN) the
\* command carries -Throw = a0 - 1 and -Trunc = N - aN, both >= 0, and the
\* frames kept, N - Throw - Trunc, number aN - a0 + 1.
C4_ThrowTruncKeepRange ==
    (Built /\ ~prot.isEER) =>
        LET th == cmd["-Throw"]
            tr == cmd["-Trunc"]
        IN  /\ th = prot.alignFrame0 - 1
            /\ tr = prot.N - prot.alignFrameN
            /\ th >= 0 /\ tr >= 0
            /\ prot.N - th - tr = prot.alignFrameN - prot.alignFrame0 + 1

C4_Witness ==
    /\ stage = "moved" /\ ~prot.isEER /\ formFrameN # 0
    /\ cmd["-Throw"] = 1 /\ cmd["-Trunc"] = 1

\* What _validate does besides the frame range test: alignFrameN = 0 becomes
\* lastFrame, the range message is appended at most once, and a second
\* validation returns what the first returned.
ValidateBasics ==
    /\ prot.alignFrameN = (IF formFrameN = 0 THEN prot.N ELSE formFrameN)
    /\ Count(MsgRange, errors) <= 1
    /\ (nValidate = 2 => errors = prevErrors)

\* C5 as stated: the range message is reported if and only if the range
\* [alignFrame0, alignFrameN] is not within 1..lastFrame.
C5_ErrorIffRangeOutside ==
    nValidate >= 1 =>
        /\ ValidateBasics
        /\ (Count(MsgRange, errors) >= 1) <=>
               ~(1 <= prot.alignFrame0 /\ prot.alignFrame0 <= prot.alignFrameN
                 /\ prot.alignFrameN <= prot.N)

\* C5, amended: the range message is reported if and only if
\* 1 <= alignFrame0 < alignFrameN <= lastFrame fails (0 read as lastFrame), so
\* a range of a single frame is rejected too; the message is appended at most
\* once and a second validation gives the same result.
C5_ErrorIffNotTwoFramesInside ==
    nValidate >= 1 =>
        /\ ValidateBasics
        /\ (Count(MsgRange, errors) >= 1) <=>
               ~(1 <= prot.alignFrame0 /\ prot.alignFrame0 < prot.alignFrameN
                 /\ prot.alignFrameN <= prot.N)

C5_Witness ==
    /\ nValidate = 2 /\ formFrameN = 0 /\ prot.alignFrameN = prot.N
    /\ prot.alignFrame0 = prot.N /\ errors = <<MsgRange>>

\* C6: at least one micrograph output is declared; the dose-weighted one iff
\* doApplyDoseFilter, the unweighted one iff doApplyDoseFilter is off or
\* doSaveUnweightedMic is on; and the file of each declared output is among
\* those _moveOutput / _moveBatchOutput try to move.
C6_DeclaredOutputsAreMoved ==
    stage = "moved" =>
        /\ outputs # {}
        /\ ("outputMicrographsDoseWeighted" \in outputs) <=> prot.doApplyDoseFilter
        /\ ("outputMicrographs" \in outputs) <=>
               (~prot.doApplyDoseFilter \/ prot.doSaveUnweightedMic)
        /\ ("outputMicrographsDoseWeighted" \in outputs => "DW" \in tried)
        /\ ("outputMicrographs" \in outputs => "mic" \in tried)

C6_Witness ==
    /\ stage = "moved" /\ prot.cls = TasksClass /\ ~prot.doApplyDoseFilter
    /\ prot.doSaveUnweightedMic /\ outputs = {"outputMicrographs"} /\ "mic" \in moved

\* C7: for EER input the protocol class chosen, ProtMotionCorr or
\* ProtMotionCorrTasks, builds its command without raising, and a run whose
\* program succeeded has outputMicrographsDoseWeighted.
C7_EerCommandBuilt ==
    (prot.isEER /\ stage \in {"failed", "runFailed", "moved"}) =>
        /\ raised = ""
        /\ (stage = "moved" /\ prot.doApplyDoseFilter
                => "outputMicrographsDoseWeighted" \in outputs)

\* The EER part of a command: -Throw 0, -Trunc 0, -EerSampling, -FmIntFile.
EerArgs(p, a) ==
    /\ a["-Throw"] = 0 /\ a["-Trunc"] = 0
    /\ "-EerSampling" \in DOMAIN a /\ a["-EerSampling"] = p.eerSampling + 1
    /\ "-FmIntFile" \in DOMAIN a

FrameValues == 0..(MaxFrames + 1)

\* What the isEER flag of _validate decides: when it is set the command
\* carries -Throw 0, -Trunc 0, -EerSampling = eerSampling + 1 and -FmIntFile
\* whatever alignFrame0 and alignFrameN are; when it is not, the command
\* carries neither -EerSampling nor -FmIntFile.
EerFlagDecidesEerArgs ==
    Built =>
        IF prot.isEER
        THEN /\ EerArgs(prot, cmd)
             /\ \A a0 \in FrameValues, aN \in FrameValues :
                    LET p == [prot EXCEPT !.alignFrame0 = a0, !.alignFrameN = aN]
                    IN  /\ EerArgs(p, processMovieArgs(p, movieExt))
                        /\ EerArgs(p, getMcArgs(p))
        ELSE /\ "-EerSampling" \notin DOMAIN cmd
             /\ "-FmIntFile" \notin DOMAIN cmd

\* C8: when the input is EER, that is when the movie is handed to the
\* program with -InEer, the command carries -Throw 0, -Trunc 0, -EerSampling
\* = eerSampling + 1 and -FmIntFile; for any other input it carries neither
\* -EerSampling nor -FmIntFile.
C8_EerInputIgnoresFrameRange ==
    (Built /\ prot.cls = McClass) =>
        IF "-InEer" \in DOMAIN cmd
        THEN EerArgs(prot, cmd)
        ELSE /\ "-EerSampling" \notin DOMAIN cmd
             /\ "-FmIntFile" \notin DOMAIN cmd

\* C9: _getConvertExtension leaves unconverted exactly the extensions
\* _processMovie accepts (.mrc, .mrcs, .tif, .tiff, .eer in any case), every
\* other one is converted to mrc, and _processMovie never raises
\* "Unsupported format".
C9_ConvertedIsSupported ==
    prot.cls = McClass =>
        /\ raised = "" /\ stage # "failed"
        /\ stage \in {"converted", "runFailed", "moved"} =>
               /\ inputOption(movieExt) # ""
               /\ (movieExt = prot.ext) <=>
                      (Lower(prot.ext) \in {".mrc", ".mrcs", ".tif", ".tiff", ".eer"})
               /\ (movieExt # prot.ext => movieExt = ".mrc")

C9_Witness ==
    /\ stage = "moved" /\ prot.ext = ".em" /\ movieExt = ".mrc"
    /\ "-InMrc" \in DOMAIN cmd

\* --------------------------------------------- SpecVersion: Plugin.versionGE
\* The parameters of a protocol as the form creates it.
DefaultProt ==
    [cls |-> TasksClass, ext |-> ".mrc", N |-> 2, alignFrame0 |-> 1, alignFrameN |-> 0,
     doApplyDoseFilter |-> TRUE, doSaveUnweightedMic |-> FALSE, splitEvenOdd |-> FALSE,
     eerSampling |-> 0, eerGroup |-> EerGroupDefault, dose |-> "ok",
     version |-> <<1, 6, 4>>, isEER |-> FALSE]

InitVersion ==
    /\ activeVersion \in Versions
    /\ queryVersion = <<1, 0, 0>> /\ geResult = TRUE /\ geCalls = 0
    /\ prot = DefaultProt /\ formFrameN = 0
    /\ CmdIdle /\ PipeIdle /\ ExtIdle

\* A call Plugin.versionGE(version).
CallVersionGE ==
    \E version \in Versions :
        /\ queryVersion' = version
        /\ geResult' = versionGE(activeVersion, version)
        /\ geCalls' = 1
        /\ UNCHANGED activeVersion

NextVersion == CallVersionGE /\ UNCHANGED <<cmdVars, pipeVars, extVars>>

SpecVersion == InitVersion /\ [][NextVersion]_vars

\* C10: versionGE(v) is True if and only if the active version is greater
\* than or equal to v in semantic-version order, component by component.
C10_VersionGEIsSemverOrder ==
    geCalls > 0 => (geResult <=> SemverGE(activeVersion, queryVersion))

\* ------------------------------ SpecPipeline: _processAllMoviesStep
\* The GPU lists getGpuList() may return: 1..MaxGpus distinct ids.
GpuLists == {SubSeq(<<"0", "1", "2", "3">>, 1, n) : n \in 1..MaxGpus}

\* The protocols the pipeline is run for: validated ProtMotionCorrTasks.
PipeProts ==
    {validated(p) : p \in {q \in Prots :
        /\ q.cls = TasksClass /\ q.ext \in {".mrc", ".eer"} /\ q.N = 2
        /\ q.alignFrame0 = 1 /\ q.alignFrameN = 0 /\ ~q.doSaveUnweightedMic
        /\ ~q.splitEvenOdd /\ q.eerSampling = 0 /\ q.dose = "ok"
        /\ q.version = <<1, 6, 4>> /\ validateErrors(q) = <<>>}}

\* What no batch is: the None a queue never carries.
NoBatch == [index |-> 0, movies |-> <<>>]

\* What one run of the program may leave behind for the movies of a batch.
BatchOutputs(ms) ==
    [{ms[i] : i \in 1..Len(ms)} -> {Kinds, {}, {"log"}, Kinds \ {"log"}}]

\* _processAllMoviesStep has not started: nothing generated, run or moved.
PipeFresh ==
    /\ formFrameN = 0
    /\ CmdIdle /\ VerIdle /\ ExtIdle
    /\ gen = [pc |-> "off"] /\ yielded = <<>> /\ batches = <<>> /\ genQueue = <<>>
    /\ proc = <<>> /\ runs = <<>> /\ outQueue = <<>> /\ mover = [pc |-> "off"]
    /\ processed = 0 /\ registered = 0 /\ lock = 0 /\ folders = {}
    /\ batchFiles = <<>> /\ extraFiles = {} /\ updates = <<>>
    /\ mainpc = "start"

InitPipeline ==
    /\ batchSize \in 0..MaxBatchSize
    /\ gpus \in GpuLists
    /\ inputSet \in 0..MaxMovies
    /\ streamClosed \in BOOLEAN
    /\ outputMovies \in SUBSET (1..inputSet)
    /\ noClean \in BOOLEAN
    /\ prot \in PipeProts
    /\ PipeFresh

\* The import protocol adds a movie to the input set.
AddMovie ==
    /\ ~streamClosed /\ inputSet < MaxMovies
    /\ inputSet' = inputSet + 1
    /\ UNCHANGED <<batchSize, gpus, streamClosed, gen, yielded, batches, genQueue, proc,
                   runs, outQueue, mover, processed, registered, lock, folders,
                   batchFiles, extraFiles, outputMovies, updates, noClean, mainpc>>

\* The import protocol closes the input set's stream.
CloseStream ==
    /\ ~streamClosed
    /\ streamClosed' = TRUE
    /\ UNCHANGED <<batchSize, gpus, inputSet, gen, yielded, batches, genQueue, proc,
                   runs, outQueue, mover, processed, registered, lock, folders,
                   batchFiles, extraFiles, outputMovies, updates, noClean, mainpc>>

\* _processAllMoviesStep up to mc.run(): the counters, the command, one
\* processor per GPU on the generator's queue, the mover on mc1.outputQueue.
StartStep ==
    /\ mainpc = "start"
    /\ IF batchInputOption(prot.ext) = ""
       THEN /\ raised' = "Unsupported format for batch processing"
            /\ mainpc' = "failed"
            /\ UNCHANGED <<cmd, gen, proc, mover>>
       ELSE /\ cmd' = getCmd(prot)
            /\ raised' = ""
            /\ gen' = [pc |-> "init", seen |-> {}, snapshot |-> 0, closed |-> FALSE,
                       idx |-> 0, movies |-> <<>>, batchCount |-> 0]
            /\ proc' = [i \in 1..Len(gpus) |->
                           [pc |-> "idle", gpu |-> gpus[i], batch |-> NoBatch]]
            /\ mover' = [pc |-> "idle", batch |-> NoBatch, newDone |-> {}]
            /\ mainpc' = "running"
    /\ processed' = 0 /\ registered' = 0 /\ lock' = 0
    /\ UNCHANGED <<prot, formFrameN, stage, errors, prevErrors, nValidate, movieExt, tried,
                   moved, outputs>>
    /\ UNCHANGED <<batchSize, gpus, inputSet, streamClosed, yielded, batches, genQueue,
                   runs, outQueue, folders, batchFiles, extraFiles, outputMovies, updates,
                   noClean>>

loadedIds_None(existing) == {}

\* The keys of the inputMovies dict before the first read: the ids of the
\* movies of the existing outputMovies set.
loadedIds(existing) == existing

\* _loadInputMovies before its loop: the movies already in outputMovies count
\* as seen. _generateBatches: _batchCount = 0, movies = [].
GenInit ==
    /\ mainpc = "running" /\ gen.pc = "init"
    /\ gen' = [gen EXCEPT !.pc = "read", !.seen = loadedIds(outputMovies)]
    /\ UNCHANGED <<batchSize, gpus, inputSet, streamClosed, yielded, batches, genQueue,
                   proc, runs, outQueue, mover, processed, registered, lock, folders,
                   batchFiles, extraFiles, outputMovies, updates, noClean, mainpc>>

\* One read of the input set: its items and its stream state.
GenRead ==
    /\ gen.pc = "read"
    /\ gen' = [gen EXCEPT !.pc = "iter", !.snapshot = inputSet, !.closed = streamClosed,
                          !.idx = 1]
    /\ UNCHANGED <<batchSize, gpus, inputSet, streamClosed, yielded, batches, genQueue,
                   proc, runs, outQueue, mover, processed, registered, lock, folders,
                   batchFiles, extraFiles, outputMovies, updates, noClean, mainpc>>

batchReady_OneMore(ms) == Len(ms) = batchSize + 1

\* if len(movies) == batchSize
batchReady(ms) == Len(ms) = batchSize

\* _createBatch: the batch made of the movies ms.
createBatch(ms) == [index |-> gen.batchCount + 1, movies |-> ms]

\* The next item of the read: a movie not seen before is yielded and appended
\* to movies; a full batch is created and put on the generator's queue.
GenStep ==
    /\ gen.pc = "iter" /\ gen.idx <= gen.snapshot
    /\ LET mid == gen.idx
       IN  IF mid \in gen.seen
           THEN /\ gen' = [gen EXCEPT !.idx = @ + 1]
                /\ UNCHANGED <<yielded, batches, genQueue, folders>>
           ELSE LET ms == Append(gen.movies, mid)
                IN  /\ yielded' = Append(yielded, mid)
                    /\ IF batchReady(ms)
                       THEN /\ gen' = [gen EXCEPT !.idx = @ + 1, !.seen = @ \cup {mid},
                                                  !.movies = <<>>, !.batchCount = @ + 1]
                            /\ batches' = Append(batches, createBatch(ms))
                            /\ genQueue' = Append(genQueue, createBatch(ms))
                            /\ folders' = folders \cup {createBatch(ms).index}
                       ELSE /\ gen' = [gen EXCEPT !.idx = @ + 1, !.seen = @ \cup {mid},
                                                  !.movies = ms]
                            /\ UNCHANGED <<batches, genQueue, folders>>
    /\ UNCHANGED <<batchSize, gpus, inputSet, streamClosed, proc, runs, outQueue, mover,
                   processed, registered, lock, batchFiles, extraFiles, outputMovies,
                   updates, noClean, mainpc>>

lastBatchDue_Never(ms) == FALSE

\* if movies: after the loop over _loadInputMovies
lastBatchDue(ms) == ms # <<>>

\* The end of a read: with the stream closed the loop ends and the movies
\* left make the last batch; otherwise the generator sleeps and reads again.
GenEndRead ==
    /\ gen.pc = "iter" /\ gen.idx > gen.snapshot
    /\ IF gen.closed
       THEN IF lastBatchDue(gen.movies)
            THEN /\ gen' = [gen EXCEPT !.pc = "done", !.movies = <<>>, !.batchCount = @ + 1]
                 /\ batches' = Append(batches, createBatch(gen.movies))
                 /\ genQueue' = Append(genQueue, createBatch(gen.movies))
                 /\ folders' = folders \cup {createBatch(gen.movies).index}
            ELSE /\ gen' = [gen EXCEPT !.pc = "done"]
                 /\ UNCHANGED <<batches, genQueue, folders>>
       ELSE /\ gen' = [gen EXCEPT !.pc = "read"]
            /\ UNCHANGED <<batches, genQueue, folders>>
    /\ UNCHANGED <<batchSize, gpus, inputSet, streamClosed, yielded, proc, runs, outQueue,
                   mover, processed, registered, lock, batchFiles, extraFiles,
                   outputMovies, updates, noClean, mainpc>>

replaceGpu_FirstGpu(command, gpu) ==
    [k \in DOMAIN command |->
        IF k = "-Gpu" /\ command[k] = "#" THEN gpus[1] ELSE command[k]]

\* self.command.replace('-Gpu #', f'-Gpu {gpu}')
replaceGpu(command, gpu) ==
    [k \in DOMAIN command |->
        IF k = "-Gpu" /\ command[k] = "#" THEN gpu ELSE command[k]]

processBatchResult_BatchOnFailure(batch, ok) == batch

\* What _processBatch returns: the batch, or None when runJob raised.
processBatchResult(batch, ok) == IF ok THEN batch ELSE NoBatch

\* The pipeline puts a processor's result on its output queue unless it is None.
putResult(queue, result) == IF result = NoBatch THEN queue ELSE Append(queue, result)

\* The run of processor i in progress (the last one it started).
CurrentRun(i) ==
    CHOOSE r \in DOMAIN runs :
        /\ runs[r].proc = i
        /\ \A q \in DOMAIN runs : runs[q].proc = i => q <= r

\* Processor i takes the next batch off the generator's queue and starts the
\* program with its own GPU id in the command.
ProcTake(i) ==
    /\ proc[i].pc = "idle" /\ genQueue # <<>>
    /\ proc' = [proc EXCEPT ![i].pc = "run", ![i].batch = Head(genQueue)]
    /\ genQueue' = Tail(genQueue)
    /\ runs' = Append(runs, [index |-> Head(genQueue).index, proc |-> i,
                             gpu |-> replaceGpu(cmd, proc[i].gpu)["-Gpu"],
                             result |-> "running", written |-> <<>>])
    /\ UNCHANGED <<batchSize, gpus, inputSet, streamClosed, gen, yielded, batches,
                   outQueue, mover, processed, registered, lock, folders, batchFiles,
                   extraFiles, outputMovies, updates, noClean, mainpc>>

\* runJob returns: the program left some files in the batch folder.
ProcRunOk(i) ==
    /\ proc[i].pc = "run"
    /\ \E written \in BatchOutputs(proc[i].batch.movies) :
           /\ batchFiles' = (proc[i].batch.index :> written) @@ batchFiles
           /\ runs' = [runs EXCEPT ![CurrentRun(i)].result = "ok",
                                   ![CurrentRun(i)].written = written]
    /\ proc' = [proc EXCEPT ![i].pc = "lock"]
    /\ UNCHANGED <<batchSize, gpus, inputSet, streamClosed, gen, yielded, batches,
                   genQueue, outQueue, mover, processed, registered, lock, folders,
                   extraFiles, outputMovies, updates, noClean, mainpc>>

afterFailure_ThreadEnds == "exited"

\* Where a processor is after the except branch of _processBatch: back in
\* its loop, waiting for the next batch.
afterFailure == "idle"

\* runJob raises: the exception is caught and logged, _processBatch returns
\* None and the processor goes on with the next batch.
ProcRunFail(i) ==
    /\ proc[i].pc = "run"
    /\ proc' = [proc EXCEPT ![i].pc = afterFailure, ![i].batch = NoBatch]
    /\ runs' = [runs EXCEPT ![CurrentRun(i)].result = "failed"]
    /\ outQueue' = putResult(outQueue, processBatchResult(proc[i].batch, FALSE))
    /\ UNCHANGED <<batchSize, gpus, inputSet, streamClosed, gen, yielded, batches,
                   genQueue, mover, processed, registered, lock, folders, batchFiles,
                   extraFiles, outputMovies, updates, noClean, mainpc>>

\* with self.lock: entered by processor i.
ProcAcquire(i) ==
    /\ proc[i].pc = "lock" /\ lock = 0
    /\ lock' = i
    /\ proc' = [proc EXCEPT ![i].pc = "crit"]
    /\ UNCHANGED <<batchSize, gpus, inputSet, streamClosed, gen, yielded, batches,
                   genQueue, runs, outQueue, mover, processed, registered, folders,
                   batchFiles, extraFiles, outputMovies, updates, noClean, mainpc>>

processedAfter_CountsBatches(n, batch) == n + 1

\* self.processed += n with n = len(batch['movies'])
processedAfter(n, batch) == n + Len(batch.movies)

\* self.processed += n, the lock is released, the batch is returned and put
\* on mc1.outputQueue.
ProcRelease(i) ==
    /\ proc[i].pc = "crit" /\ lock = i
    /\ processed' = processedAfter(processed, proc[i].batch)
    /\ lock' = 0
    /\ outQueue' = putResult(outQueue, processBatchResult(proc[i].batch, TRUE))
    /\ proc' = [proc EXCEPT ![i].pc = "idle", ![i].batch = NoBatch]
    /\ UNCHANGED <<batchSize, gpus, inputSet, streamClosed, gen, yielded, batches,
                   genQueue, runs, mover, registered, folders, batchFiles, extraFiles,
                   outputMovies, updates, noClean, mainpc>>

\* The generator has finished and its queue is empty: processor i ends.
ProcExit(i) ==
    /\ proc[i].pc = "idle" /\ genQueue = <<>> /\ gen.pc = "done"
    /\ proc' = [proc EXCEPT ![i].pc = "exited"]
    /\ UNCHANGED <<batchSize, gpus, inputSet, streamClosed, gen, yielded, batches,
                   genQueue, runs, outQueue, mover, processed, registered, lock, folders,
                   batchFiles, extraFiles, outputMovies, updates, noClean, mainpc>>

logWritten_AllMovies(b) == {b.movies[k] : k \in 1..Len(b.movies)}

\* The movies of batch b whose alignment log is in the batch folder.
logWritten(b) ==
    IF b.index \in DOMAIN batchFiles
    THEN {b.movies[k] : k \in {j \in 1..Len(b.movies) :
                                   "log" \in batchFiles[b.index][b.movies[j]]}}
    ELSE {}

\* The files of batch b that _moveToExtra finds and moves.
movedFiles(b) ==
    IF b.index \in DOMAIN batchFiles
    THEN {mf \in {b.movies[k] : k \in 1..Len(b.movies)} \X moveBatchFiles(prot) :
             mf[2] \in batchFiles[b.index][mf[1]]}
    ELSE {}

\* The mover takes the next batch off mc1.outputQueue.
MoveTake ==
    /\ mover.pc = "idle" /\ outQueue # <<>>
    /\ mover' = [mover EXCEPT !.pc = "move", !.batch = Head(outQueue)]
    /\ outQueue' = Tail(outQueue)
    /\ UNCHANGED <<batchSize, gpus, inputSet, streamClosed, gen, yielded, batches,
                   genQueue, proc, runs, processed, registered, lock, folders,
                   batchFiles, extraFiles, outputMovies, updates, noClean, mainpc>>

\* _moveBatchOutput up to the lock: every expected file that exists is moved
\* to extra, the movies whose log was moved are newDone and, if there is any,
\* go to _updateOutputSets with STREAM_OPEN.
MoveFiles ==
    /\ mover.pc = "move"
    /\ LET b == mover.batch
           newDone == logWritten(b)
       IN  /\ extraFiles' = extraFiles \cup movedFiles(b)
           /\ batchFiles' = [k \in DOMAIN batchFiles |->
                                IF k = b.index
                                THEN [m \in DOMAIN batchFiles[k] |->
                                         batchFiles[k][m] \ moveBatchFiles(prot)]
                                ELSE batchFiles[k]]
           /\ mover' = [mover EXCEPT !.pc = "lock", !.newDone = newDone]
           /\ IF newDone # {}
              THEN /\ outputMovies' = outputMovies \cup newDone
                   /\ updates' = Append(updates, [state |-> "STREAM_OPEN", movies |-> newDone])
              ELSE UNCHANGED <<outputMovies, updates>>
    /\ UNCHANGED <<batchSize, gpus, inputSet, streamClosed, gen, yielded, batches,
                   genQueue, proc, runs, outQueue, processed, registered, lock, folders,
                   noClean, mainpc>>

\* with self.lock: entered by the mover.
MoveAcquire ==
    /\ mover.pc = "lock" /\ lock = 0
    /\ lock' = -1
    /\ mover' = [mover EXCEPT !.pc = "crit"]
    /\ UNCHANGED <<batchSize, gpus, inputSet, streamClosed, gen, yielded, batches,
                   genQueue, proc, runs, outQueue, processed, registered, folders,
                   batchFiles, extraFiles, outputMovies, updates, noClean, mainpc>>

\* self.registered += len(newDone), the lock is released.
MoveRelease ==
    /\ mover.pc = "crit" /\ lock = -1
    /\ registered' = registered + Cardinality(mover.newDone)
    /\ lock' = 0
    /\ mover' = [mover EXCEPT !.pc = "clean"]
    /\ UNCHANGED <<batchSize, gpus, inputSet, streamClosed, gen, yielded, batches,
                   genQueue, proc, runs, outQueue, processed, folders, batchFiles,
                   extraFiles, outputMovies, updates, noClean, mainpc>>

\* The batch folder is removed unless SCIPION_DEBUG_NOCLEAN is on.
MoveClean ==
    /\ mover.pc = "clean"
    /\ IF noClean
       THEN UNCHANGED <<folders, batchFiles>>
       ELSE /\ folders' = folders \ {mover.batch.index}
            /\ batchFiles' = [k \in DOMAIN batchFiles |->
                                 IF k = mover.batch.index
                                 THEN [m \in DOMAIN batchFiles[k] |-> {}]
                                 ELSE batchFiles[k]]
    /\ mover' = [mover EXCEPT !.pc = "idle", !.batch = NoBatch, !.newDone = {}]
    /\ UNCHANGED <<batchSize, gpus, inputSet, streamClosed, gen, yielded, batches,
                   genQueue, proc, runs, outQueue, processed, registered, lock,
                   extraFiles, outputMovies, updates, noClean, mainpc>>

\* Every processor has ended and mc1.outputQueue is empty: the mover ends.
MoveExit ==
    /\ mover.pc = "idle" /\ outQueue = <<>>
    /\ \A i \in DOMAIN proc : proc[i].pc = "exited"
    /\ mover' = [mover EXCEPT !.pc = "exited"]
    /\ UNCHANGED <<batchSize, gpus, inputSet, streamClosed, gen, yielded, batches,
                   genQueue, proc, runs, outQueue, processed, registered, lock, folders,
                   batchFiles, extraFiles, outputMovies, updates, noClean, mainpc>>

runReturned_GeneratorOnly == gen.pc = "done"

\* mc.run() has returned: the generator, the processors and the mover have
\* all ended.
runReturned ==
    /\ gen.pc = "done" /\ mover.pc = "exited"
    /\ \A i \in DOMAIN proc : proc[i].pc = "exited"

\* mc.run() returns when every thread has ended; the output is then closed:
\* self._updateOutputSets([], pwobj.Set.STREAM_CLOSED).
FinishStep ==
    /\ mainpc = "running" /\ runReturned
    /\ updates' = Append(updates, [state |-> "STREAM_CLOSED", movies |-> {}])
    /\ mainpc' = "done"
    /\ UNCHANGED <<batchSize, gpus, inputSet, streamClosed, gen, yielded, batches,
                   genQueue, proc, runs, outQueue, mover, processed, registered, lock,
                   folders, batchFiles, extraFiles, outputMovies, noClean>>

NextPipeline ==
    \/ (StartStep /\ UNCHANGED <<verVars, extVars>>)
    \/ (AddMovie /\ UNCHANGED <<cmdVars, verVars, extVars>>)
    \/ (CloseStream /\ UNCHANGED <<cmdVars, verVars, extVars>>)
    \/ (GenInit /\ UNCHANGED <<cmdVars, verVars, extVars>>)
    \/ (GenRead /\ UNCHANGED <<cmdVars, verVars, extVars>>)
    \/ (GenStep /\ UNCHANGED <<cmdVars, verVars, extVars>>)
    \/ (GenEndRead /\ UNCHANGED <<cmdVars, verVars, extVars>>)
    \/ (\E i \in DOMAIN proc : ProcTake(i) /\ UNCHANGED <<cmdVars, verVars, extVars>>)
    \/ (\E i \in DOMAIN proc : ProcRunOk(i) /\ UNCHANGED <<cmdVars, verVars, extVars>>)
    \/ (\E i \in DOMAIN proc : ProcRunFail(i) /\ UNCHANGED <<cmdVars, verVars, extVars>>)
    \/ (\E i \in DOMAIN proc : ProcAcquire(i) /\ UNCHANGED <<cmdVars, verVars, extVars>>)
    \/ (\E i \in DOMAIN proc : ProcRelease(i) /\ UNCHANGED <<cmdVars, verVars, extVars>>)
    \/ (\E i \in DOMAIN proc : ProcExit(i) /\ UNCHANGED <<cmdVars, verVars, extVars>>)
    \/ (MoveTake /\ UNCHANGED <<cmdVars, verVars, extVars>>)
    \/ (MoveFiles /\ UNCHANGED <<cmdVars, verVars, extVars>>)
    \/ (MoveAcquire /\ UNCHANGED <<cmdVars, verVars, extVars>>)
    \/ (MoveRelease /\ UNCHANGED <<cmdVars, verVars, extVars>>)
    \/ (MoveClean /\ UNCHANGED <<cmdVars, verVars, extVars>>)
    \/ (MoveExit /\ UNCHANGED <<cmdVars, verVars, extVars>>)
    \/ (FinishStep /\ UNCHANGED <<cmdVars, verVars, extVars>>)

SpecPipeline == InitPipeline /\ [][NextPipeline]_vars

\* ------------------------------- SpecBatches: the generator thread alone
InitBatches ==
    /\ batchSize \in 0..MaxBatchSize
    /\ gpus = <<"0">>
    /\ inputSet \in 0..MaxInitial
    /\ streamClosed \in BOOLEAN
    /\ outputMovies \in SUBSET (1..inputSet)
    /\ noClean = FALSE
    /\ prot \in PipeProts
    /\ PipeFresh

NextBatches ==
    \/ (StartStep /\ UNCHANGED <<verVars, extVars>>)
    \/ (AddMovie /\ UNCHANGED <<cmdVars, verVars, extVars>>)
    \/ (CloseStream /\ UNCHANGED <<cmdVars, verVars, extVars>>)
    \/ (GenInit /\ UNCHANGED <<cmdVars, verVars, extVars>>)
    \/ (GenRead /\ UNCHANGED <<cmdVars, verVars, extVars>>)
    \/ (GenStep /\ UNCHANGED <<cmdVars, verVars, extVars>>)
    \/ (GenEndRead /\ UNCHANGED <<cmdVars, verVars, extVars>>)

SpecBatches == InitBatches /\ [][NextBatches]_vars

\* --------------------------------------------- claims on the pipeline
\* The batch indexes carried by a sequence of batches or runs.
Indexes(seq) == {seq[k].index : k \in DOMAIN seq}

\* The runs made for the batch with index n.
RunsOf(n) == {r \in DOMAIN runs : runs[r].index = n}

\* C1: one processor per GPU id of the list, all on the generator's queue;
\* every batch generated is run by exactly one processor, never by two and,
\* once the pipeline has finished, never by none; the command of a run
\* carries the GPU id of the processor that made it in place of '#'.
C1_EachBatchRunOnceOnOwnGpu ==
    mainpc \in {"running", "done"} =>
        /\ Len(proc) = Len(gpus)
        /\ \A i \in DOMAIN proc : proc[i].gpu = gpus[i]
        /\ \A i, j \in DOMAIN proc : proc[i].gpu = proc[j].gpu => i = j
        /\ \A r \in DOMAIN runs :
               /\ runs[r].gpu = gpus[runs[r].proc]
               /\ runs[r].index \in Indexes(batches)
        /\ \A n \in Indexes(batches) :
               /\ Cardinality(RunsOf(n)) <= 1
               /\ (n \in Indexes(genQueue)) <=> (RunsOf(n) = {})
               /\ mainpc = "done" => Cardinality(RunsOf(n)) = 1

C1_Witness ==
    /\ mainpc = "done" /\ Len(gpus) = 2 /\ Len(runs) = 2
    /\ runs[1].proc # runs[2].proc /\ runs[1].gpu # runs[2].gpu
    /\ runs[1].result = "ok" /\ runs[2].result = "ok"

\* The batch with index n is in the hands of the mover or on its queue.
PassedOn(n) == n \in Indexes(outQueue) \/ (mover.pc # "exited" /\ mover.batch.index = n)

\* C2 as stated: a batch whose run failed is given up only after two retries
\* failed as well, three runs in all.
C2_AbandonedAfterTwoRetries ==
    mainpc \in {"running", "done"} =>
        \A r \in DOMAIN runs :
            runs[r].result = "failed" => Cardinality(RunsOf(runs[r].index)) = 3

\* C2, amended: a batch whose run failed is given up at once: the exception
\* is caught, the batch is run exactly once, never retried, and it is not
\* passed on to _moveBatchOutput.
C2_FailedBatchRunOnceAndDropped ==
    mainpc \in {"running", "done"} =>
        \A r \in DOMAIN runs :
            runs[r].result = "failed" =>
                /\ Cardinality(RunsOf(runs[r].index)) = 1
                /\ ~PassedOn(runs[r].index)
                /\ runs[r].index \notin DOMAIN batchFiles

C2_Witness ==
    /\ mainpc = "done" /\ Len(runs) = 2
    /\ runs[1].result = "failed" /\ runs[2].result = "ok"
    /\ processed = 1

RECURSIVE Flatten(_)
\* The movies of a sequence of batches, in order.
Flatten(bs) == IF bs = <<>> THEN <<>> ELSE Head(bs).movies \o Flatten(Tail(bs))

\* The batches and the movies waiting for one are the yielded movies, each
\* once and in yield order; no batch is empty; indexes count from 1.
BatchesPartition ==
    /\ Flatten(batches) \o gen.movies = yielded
    /\ \A i, j \in DOMAIN yielded : yielded[i] = yielded[j] => i = j
    /\ \A i \in DOMAIN batches : batches[i].index = i /\ batches[i].movies # <<>>
    /\ gen.pc = "done" => gen.movies = <<>>

\* Every batch but the last has streamingBatchSize movies, the last 1 to
\* streamingBatchSize; a batch made before the stream closed is full.
BatchSizes ==
    \A i \in DOMAIN batches :
        /\ Len(batches[i].movies) >= 1 /\ Len(batches[i].movies) <= batchSize
        /\ (i < Len(batches) \/ gen.pc # "done") => Len(batches[i].movies) = batchSize

\* C3 as stated, for every streamingBatchSize.
C3_BatchesPartitionInOrder ==
    mainpc = "running" => BatchesPartition /\ BatchSizes

\* C3, amended: the partition holds always, the sizes for streamingBatchSize
\* >= 1; with streamingBatchSize 0 all the movies yielded make one batch,
\* created when the stream is closed.
C3_BatchesPartitionSizedFromOne ==
    mainpc = "running" =>
        /\ BatchesPartition
        /\ batchSize >= 1 => BatchSizes
        /\ batchSize = 0 =>
               /\ Len(batches) <= 1
               /\ batches # <<>> => (gen.pc = "done" /\ batches[1].movies = yielded)

C3_Witness ==
    /\ gen.pc = "done" /\ batchSize = 2 /\ Len(batches) = 2
    /\ Len(batches[1].movies) = 2 /\ Len(batches[2].movies) = 1
    /\ yielded = <<2, 3, 4>>

\* ------------------------------------------------- SpecParse: convert.py
\* A line of the log after strip() and split(): whether it contains '#', and
\* its columns. Column k of the line of frame f holds the number 10 f + k. A
\* line with '#' has at least one column; an empty line has none.
LogLines ==
    {[hash |-> h, parts |-> [k \in 1..n |-> 10 * f + k]] :
        h \in BOOLEAN, n \in 0..MaxCols, f \in 1..2} \ {[hash |-> TRUE, parts |-> <<>>]}

RECURSIVE SeqsUpTo(_, _)
\* The sequences of at most n elements of S.
SeqsUpTo(S, n) ==
    IF n = 0 THEN {<<>>}
    ELSE LET shorter == SeqsUpTo(S, n - 1)
         IN  shorter \cup {Append(q, e) : q \in shorter, e \in S}

LogFiles == SeqsUpTo(LogLines, MaxLines)

\* if '#' not in l and len(l) > 0
isDataLine(l) == ~l.hash /\ l.parts # <<>>

RECURSIVE dataLines(_)
\* The lines of the log parseMovieAlignment2 reads shifts from, in file order.
dataLines(log) ==
    IF log = <<>> THEN <<>>
    ELSE IF isDataLine(Head(log)) THEN <<Head(log)>> \o dataLines(Tail(log))
    ELSE dataLines(Tail(log))

\* parseMovieAlignment2: parts[1] and parts[2] (0-based) of every data line;
\* a data line of fewer than three columns raises IndexError.
parseMovieAlignment2(log) ==
    LET d == dataLines(log)
    IN  IF \E i \in DOMAIN d : Len(d[i].parts) < 3
        THEN [raised |-> "IndexError", x |-> <<>>, y |-> <<>>]
        ELSE [raised |-> "", x |-> [i \in DOMAIN d |-> d[i].parts[2]],
                             y |-> [i \in DOMAIN d |-> d[i].parts[3]]]

\* Width and height the col and row defects are given (a literal of the code).
EerSize == 4096

\* An item of the gain metadata: its tag and the numbers of its text, "x,y"
\* for a point, "x1,y1,x2,y2" for an area, "a-b" for a col or a row.
GainItems ==
    [tag : {"point", "area", "col", "row", "other"},
     v : {<<1, 2, 3, 4>>, <<2, 2, 2, 2>>}]

\* The gain file: its extension, whether its first page carries the metadata
\* tag 65100, and the items of the metadata.
GainFiles == [ext : {".gain", ".mrc", ".GAIN"}, meta : BOOLEAN,
              items : SeqsUpTo(GainItems, MaxItems)]

\* The entry parseEERDefects appends for an item, <<>> for an unknown tag.
defectEntry(item) ==
    LET v == item.v
    IN  IF item.tag = "point" THEN <<v[1], v[2], 1, 1>>
        ELSE IF item.tag = "area"
        THEN <<v[1], v[2], v[3] - v[1] + 1, v[4] - v[2] + 1>>
        ELSE IF item.tag = "col" THEN <<v[1], 0, v[2] - v[1] + 1, EerSize>>
        ELSE IF item.tag = "row" THEN <<0, v[1], 0, EerSize, v[2] - v[1] + 1>>
        ELSE <<>>

RECURSIVE defectEntries(_)
defectEntries(items) ==
    IF items = <<>> THEN <<>>
    ELSE (IF defectEntry(Head(items)) = <<>> THEN <<>> ELSE <<defectEntry(Head(items))>>)
         \o defectEntries(Tail(items))

\* parseEERDefects(fn): no entries unless fn ends with ".gain"; gainStr is
\* unbound, and the loop over it raises, when the tag is missing.
parseEERDefects(g) ==
    IF g.ext # ".gain" THEN [raised |-> "", entries |-> <<>>]
    ELSE IF ~g.meta THEN [raised |-> "UnboundLocalError", entries |-> <<>>]
    ELSE [raised |-> "", entries |-> defectEntries(g.items)]

InitParse ==
    /\ \/ logFile \in LogFiles /\ gainTags = [ext |-> "", meta |-> FALSE, items |-> <<>>]
       \/ logFile = <<>> /\ gainTags \in GainFiles
    /\ shifts = [raised |-> "", x |-> <<>>, y |-> <<>>]
    /\ defects = [raised |-> "", entries |-> <<>>, file |-> <<>>, written |-> FALSE]
    /\ convpc = "idle"
    /\ prot = DefaultProt /\ formFrameN = 0
    /\ CmdIdle /\ VerIdle /\ PipeIdle /\ WtIdle /\ TsIdle /\ XpIdle

\* _getMovieShifts: the log of a movie is parsed.
ParseLog ==
    /\ convpc = "idle" /\ gainTags.ext = ""
    /\ shifts' = parseMovieAlignment2(logFile)
    /\ convpc' = "log"
    /\ UNCHANGED <<logFile, gainTags, defects>>

\* _convertInputStep / _prepareEERFiles for EER movies with a gain file: the
\* defects are parsed and, if there are any, written one entry per line.
PrepareEERFiles ==
    /\ convpc = "idle" /\ gainTags.ext # ""
    /\ LET r == parseEERDefects(gainTags)
       IN  defects' = [raised |-> r.raised, entries |-> r.entries,
                       file |-> IF r.entries # <<>> THEN r.entries ELSE <<>>,
                       written |-> r.entries # <<>>]
    /\ convpc' = "defects"
    /\ UNCHANGED <<logFile, gainTags, shifts>>

NextParse ==
    \/ (ParseLog /\ UNCHANGED <<cmdVars, verVars, pipeVars, wtVars, tsVars, xpVars>>)
    \/ (PrepareEERFiles /\ UNCHANGED <<cmdVars, verVars, pipeVars, wtVars, tsVars, xpVars>>)

SpecParse == InitParse /\ [][NextParse]_vars

\* C11: parseMovieAlignment2 returns two lists of equal length with one
\* shift per data line of the log, in file order, taken from the last two
\* columns of the line; empty lines and lines with '#' contribute nothing.
C11_ShiftsFromLastTwoColumns ==
    convpc = "log" =>
        LET d == dataLines(logFile)
        IN  /\ shifts.raised = ""
            /\ Len(shifts.x) = Len(d) /\ Len(shifts.y) = Len(d)
            /\ \A i \in DOMAIN d :
                   /\ shifts.x[i] = d[i].parts[Len(d[i].parts) - 1]
                   /\ shifts.y[i] = d[i].parts[Len(d[i].parts)]

\* What holds of parseMovieAlignment2: on a log whose data lines all have
\* three columns it returns one (x, y) per data line, in file order, from
\* the second and third column.
ShiftsOfThreeColumnLog ==
    (convpc = "log" /\ \A i \in DOMAIN logFile :
                           isDataLine(logFile[i]) => Len(logFile[i].parts) = 3) =>
        LET d == dataLines(logFile)
        IN  /\ shifts.raised = ""
            /\ Len(shifts.x) = Len(d) /\ Len(shifts.y) = Len(d)
            /\ \A i \in DOMAIN d : shifts.x[i] = d[i].parts[2] /\ shifts.y[i] = d[i].parts[3]

\* C15: every entry parseEERDefects returns has exactly 4 fields, so every
\* line of defects_eer.txt has 4 values; a file whose name does not end in
\* '.gain' yields no entries and no defects file.
C15_DefectEntriesHaveFourFields ==
    convpc = "defects" =>
        /\ \A i \in DOMAIN defects.entries : Len(defects.entries[i]) = 4
        /\ \A i \in DOMAIN defects.file : Len(defects.file[i]) = 4
        /\ gainTags.ext # ".gain" => (defects.entries = <<>> /\ ~defects.written)

\* What holds of parseEERDefects: point, area and col items give 4 fields, a
\* row item gives 5; no '.gain' ending, no entries and no file.
DefectFieldsByTag ==
    convpc = "defects" =>
        /\ Len(defects.entries) <= Len(gainTags.items)
        /\ \A i \in DOMAIN defects.entries : Len(defects.entries[i]) \in {4, 5}
        /\ (\A i \in DOMAIN gainTags.items : gainTags.items[i].tag # "row")
               => \A i \in DOMAIN defects.entries : Len(defects.entries[i]) = 4
        /\ gainTags.ext # ".gain" => (defects.entries = <<>> /\ ~defects.written)

\* --------------------------- SpecWorker: the extra-work thread of a movie
\* Seconds waitForThreadStep sleeps.
SleepSecs == 10

\* '--dont_use_worker_thread' not in self.extraProtocolParams.get()
useWorkerThread(params) == "--dont_use_worker_thread" \notin params

\* The steps of a run over n movies: one _processMovie step per movie and
\* what _insertFinalSteps adds with all of them as prerequisites.
insertedSteps(n, params) ==
    [m \in 1..n |-> [name |-> "processMovieStep", movie |-> m, status |-> "new"]]
    \o (IF useWorkerThread(params)
        THEN <<[name |-> "waitForThreadStep", movie |-> 0, status |-> "new"]>>
        ELSE <<>>)

InitWorker ==
    /\ extraProtocolParams \in SUBSET {"--dont_use_worker_thread", "--other"}
    /\ steps = <<>> /\ threads = <<>> /\ inlineWork = {} /\ sleepLeft = 0
    /\ prot = DefaultProt /\ formFrameN = 0
    /\ CmdIdle /\ VerIdle /\ PipeIdle /\ ConvIdle /\ TsIdle /\ XpIdle

\* _insertAllSteps of the framework with _insertFinalSteps.
InsertSteps ==
    /\ steps = <<>>
    /\ \E n \in 1..MaxMovies : steps' = insertedSteps(n, extraProtocolParams)
    /\ UNCHANGED <<extraProtocolParams, threads, inlineWork, sleepLeft>>

\* The step k is the next one the executor runs: all before it are over.
NextToRun(k) ==
    /\ k \in DOMAIN steps /\ steps[k].status = "new"
    /\ \A j \in 1..(k - 1) : steps[j].status \in {"finished", "failed"}

\* _processMovie: the program runs and the output is moved, then the extra
\* work is started in a thread, or done before the step returns.
MovieStepOk ==
    \E k \in DOMAIN steps :
        /\ NextToRun(k) /\ steps[k].name = "processMovieStep"
        /\ steps' = [steps EXCEPT ![k].status = "finished"]
        /\ IF useWorkerThread(extraProtocolParams)
           THEN /\ \E work \in 0..MaxWork : threads' = Append(threads, work)
                /\ UNCHANGED inlineWork
           ELSE /\ inlineWork' = inlineWork \cup {steps[k].movie}
                /\ UNCHANGED threads
        /\ UNCHANGED <<extraProtocolParams, sleepLeft>>

\* _processMovie when runJob or _moveOutput raises: the exception is caught
\* and logged, no extra work is started.
MovieStepFail ==
    \E k \in DOMAIN steps :
        /\ NextToRun(k) /\ steps[k].name = "processMovieStep"
        /\ steps' = [steps EXCEPT ![k].status = "finished"]
        /\ UNCHANGED <<extraProtocolParams, threads, inlineWork, sleepLeft>>

\* waitForThreadStep calls time.sleep(10).
WaitStart ==
    \E k \in DOMAIN steps :
        /\ NextToRun(k) /\ steps[k].name = "waitForThreadStep"
        /\ steps' = [steps EXCEPT ![k].status = "running"]
        /\ sleepLeft' = SleepSecs
        /\ UNCHANGED <<extraProtocolParams, threads, inlineWork>>

\* A second passes: for the threads at work and for the sleep.
Tick ==
    /\ (\E t \in DOMAIN threads : threads[t] > 0) \/ sleepLeft > 0
    /\ threads' = [t \in DOMAIN threads |-> IF threads[t] > 0 THEN threads[t] - 1 ELSE 0]
    /\ sleepLeft' = IF sleepLeft > 0 THEN sleepLeft - 1 ELSE 0
    /\ UNCHANGED <<extraProtocolParams, steps, inlineWork>>

\* The sleep is over and waitForThreadStep returns.
WaitEnd ==
    \E k \in DOMAIN steps :
        /\ steps[k].name = "waitForThreadStep" /\ steps[k].status = "running"
        /\ sleepLeft = 0
        /\ steps' = [steps EXCEPT ![k].status = "finished"]
        /\ UNCHANGED <<extraProtocolParams, threads, inlineWork, sleepLeft>>

NextWorker ==
    \/ (InsertSteps /\ UNCHANGED <<cmdVars, verVars, pipeVars, convVars, tsVars, xpVars>>)
    \/ (MovieStepOk /\ UNCHANGED <<cmdVars, verVars, pipeVars, convVars, tsVars, xpVars>>)
    \/ (MovieStepFail /\ UNCHANGED <<cmdVars, verVars, pipeVars, convVars, tsVars, xpVars>>)
    \/ (WaitStart /\ UNCHANGED <<cmdVars, verVars, pipeVars, convVars, tsVars, xpVars>>)
    \/ (Tick /\ UNCHANGED <<cmdVars, verVars, pipeVars, convVars, tsVars, xpVars>>)
    \/ (WaitEnd /\ UNCHANGED <<cmdVars, verVars, pipeVars, convVars, tsVars, xpVars>>)

SpecWorker == InitWorker /\ [][NextWorker]_vars

\* The final step of the run, if one was inserted and it has finished.
WaitStepFinished ==
    \E k \in DOMAIN steps :
        steps[k].name = "waitForThreadStep" /\ steps[k].status = "finished"

\* What holds of the worker thread: the extra work runs in a thread, and a
\* final waitForThreadStep after all the movie steps is inserted, exactly
\* when '--dont_use_worker_thread' is absent.
WorkerThreadUnlessOptedOut ==
    steps # <<>> =>
        LET absent == "--dont_use_worker_thread" \notin extraProtocolParams
            last == steps[Len(steps)]
        IN  /\ (last.name = "waitForThreadStep") <=> absent
            /\ \A k \in 1..(Len(steps) - 1) : steps[k].name = "processMovieStep"
            /\ absent => inlineWork = {}
            /\ ~absent => threads = <<>>
            /\ last.name = "waitForThreadStep" /\ last.status # "new"
                   => \A k \in 1..(Len(steps) - 1) : steps[k].status # "new"

\* C12: the extra work runs in a thread and a final waitForThreadStep is
\* inserted exactly when '--dont_use_worker_thread' is absent, and when that
\* final step completes every extra-work thread started has finished.
C12_FinalStepWaitsForThreads ==
    /\ WorkerThreadUnlessOptedOut
    /\ WaitStepFinished => \A t \in DOMAIN threads : threads[t] = 0

\* ------------------------------ SpecTs: ProtTsMotionCorr, one tilt image
MsgTsDose == "Dose per tilt for input TS movies is 0 or not set. You cannot apply dose filter."
MsgBaseDose == "Input movies do not contain the dose information, dose-weighting can not be performed."
MsgExpected == "Expected output file not produced!"

TsProts ==
    [doApplyDoseFilter : BOOLEAN, doSaveUnweightedMic : BOOLEAN, dose : Doses,
     ext : {".mrc", ".tif", ".eer"}, noClean : BOOLEAN]

\* The dose check of ProtTsMotionCorr._validate: doseFrame < 0.00001 is
\* evaluated first, and comparing None with a number raises TypeError.
tsValidate(p) ==
    IF p.doApplyDoseFilter
    THEN IF p.dose = "None" THEN [raised |-> "TypeError", errors |-> <<>>]
         ELSE IF p.dose = "zero" THEN [raised |-> "", errors |-> <<MsgTsDose>>]
         ELSE [raised |-> "", errors |-> <<>>]
    ELSE [raised |-> "", errors |-> <<>>]

\* The dose check of ProtMotionCorrBase._validate: dose is None is evaluated
\* first.
baseDoseErrors(p) ==
    IF p.doApplyDoseFilter /\ (p.dose = "None" \/ p.dose = "zero")
    THEN <<MsgBaseDose>> ELSE <<>>

\* What a run of the program may write for a tilt image: the sum, the
\* dose-weighted sum when dose filtering is on, the alignment log.
TsProgramOutputs(p) ==
    {w \in SUBSET {"mic", "DW", "log"} : "DW" \in w => p.doApplyDoseFilter}

\* The -In* option _processTiltImageM picks, "" when it raises.
tsInputOption(ext) ==
    IF Lower(ext) \in {".mrc", ".mrcs"} THEN "-InMrc"
    ELSE IF Lower(ext) \in {".tif", ".tiff"} THEN "-InTiff"
    ELSE ""

InitTs ==
    /\ tsProt \in TsProts
    /\ tsStage = "new" /\ tsErrors = <<>> /\ tsRaised = "" /\ tsWritten = {}
    /\ tsExtra = {} /\ tsFolder = FALSE
    /\ prot = DefaultProt /\ formFrameN = 0
    /\ CmdIdle /\ VerIdle /\ PipeIdle /\ ConvIdle /\ WtIdle /\ XpIdle

\* ProtTsMotionCorr._validate
TsValidate ==
    /\ tsStage = "new"
    /\ LET r == tsValidate(tsProt)
       IN  /\ tsErrors' = r.errors
           /\ tsRaised' = r.raised
           /\ tsStage' = IF r.raised = "" THEN "validated" ELSE "validateRaised"
    /\ UNCHANGED <<tsProt, tsWritten, tsExtra, tsFolder>>

\* _processTiltImageM after runJob returned, with written the files the
\* program left: the log is moved to the extra folder (moveFile raises when
\* it is missing), and the unweighted sum is removed when only the
\* dose-weighted one is wanted. The sums are written to the extra folder,
\* the log to the working folder.
tsAfterRun(p, written) ==
    IF "log" \notin written
    THEN [raised |-> "FileNotFoundError", extra |-> written]
    ELSE [raised |-> "",
          extra |-> IF p.doApplyDoseFilter /\ ~p.doSaveUnweightedMic
                    THEN written \ {"mic"} ELSE written]

\* processTiltImageStep for one tilt image, the program returning normally.
ProcessTiltImageStep ==
    /\ tsStage = "validated" /\ tsErrors = <<>>
    /\ IF tsInputOption(tsProt.ext) = ""
       THEN /\ tsRaised' = "Unsupported format"
            /\ tsStage' = "raised"
            /\ tsFolder' = TRUE
            /\ UNCHANGED <<tsWritten, tsExtra>>
       ELSE \E written \in TsProgramOutputs(tsProt) :
                LET r == tsAfterRun(tsProt, written)
                IN  /\ tsWritten' = written
                    /\ tsExtra' = r.extra
                    /\ IF r.raised # ""
                       THEN /\ tsRaised' = r.raised /\ tsStage' = "raised"
                            /\ tsFolder' = TRUE
                       ELSE IF "mic" \notin r.extra
                       THEN /\ tsRaised' = MsgExpected /\ tsStage' = "raised"
                            /\ tsFolder' = TRUE
                       ELSE /\ tsRaised' = "" /\ tsStage' = "done"
                            /\ tsFolder' = tsProt.noClean
    /\ UNCHANGED <<tsProt, tsErrors>>

\* processTiltImageStep when runJob raises: the exception leaves the step.
ProcessTiltImageFail ==
    /\ tsStage = "validated" /\ tsErrors = <<>>
    /\ tsInputOption(tsProt.ext) # ""
    /\ tsRaised' = "runJob failed" /\ tsStage' = "raised" /\ tsFolder' = TRUE
    /\ UNCHANGED <<tsProt, tsErrors, tsWritten, tsExtra>>

NextTs ==
    \/ (TsValidate /\ UNCHANGED <<cmdVars, verVars, pipeVars, convVars, wtVars, xpVars>>)
    \/ (ProcessTiltImageStep /\ UNCHANGED <<cmdVars, verVars, pipeVars, convVars, wtVars, xpVars>>)
    \/ (ProcessTiltImageFail /\ UNCHANGED <<cmdVars, verVars, pipeVars, convVars, wtVars, xpVars>>)

SpecTs == InitTs /\ [][NextTs]_vars

\* The program was run for the tilt image and returned.
TsProgramReturned ==
    tsStage \in {"done", "raised"} /\ tsRaised \notin {"Unsupported format", "runJob failed"}

\* C13: processTiltImageStep raises "Expected output file ... not produced!"
\* if and only if the program did not write the tilt image's output file;
\* whenever the program wrote it the step completes and the working folder
\* is cleaned (unless SCIPION_DEBUG_NOCLEAN is on).
C13_RaisesIffOutputNotWritten ==
    TsProgramReturned =>
        /\ (tsRaised = MsgExpected) <=> ("mic" \notin tsWritten)
        /\ "mic" \in tsWritten =>
               /\ tsStage = "done" /\ tsRaised = ""
               /\ tsProt.noClean \/ ~tsFolder

\* What holds of processTiltImageStep: it completes exactly when the program
\* wrote the log and the sum and the unweighted sum is kept; it raises
\* "Expected output file" exactly when the log was written and the sum was
\* not written or was removed again.
TsStepOutcome ==
    TsProgramReturned =>
        LET kept == ~(tsProt.doApplyDoseFilter /\ ~tsProt.doSaveUnweightedMic)
        IN  /\ (tsStage = "done") <=> ({"log", "mic"} \subseteq tsWritten /\ kept)
            /\ (tsRaised = MsgExpected) <=>
                   ("log" \in tsWritten /\ ("mic" \notin tsWritten \/ ~kept))
            /\ tsStage = "done" => (tsFolder <=> tsProt.noClean)

\* C14: with dose filtering requested and a dose per frame of 0 or not set,
\* validation returns an error entry and does not raise, in
\* ProtMotionCorr._validate, ProtMotionCorrBase._validate and
\* ProtTsMotionCorr._validate alike; with dose filtering off no dose error
\* is reported.
C14_DoseErrorWithoutRaising ==
    tsStage \in {"validated", "validateRaised"} =>
        /\ (tsProt.doApplyDoseFilter /\ tsProt.dose \in {"None", "zero"}) =>
               /\ tsRaised = "" /\ tsErrors = <<MsgTsDose>>
               /\ doseErrors(tsProt) = <<MsgDose>>
               /\ baseDoseErrors(tsProt) = <<MsgBaseDose>>
        /\ ~tsProt.doApplyDoseFilter =>
               /\ tsRaised = "" /\ tsErrors = <<>>
               /\ doseErrors(tsProt) = <<>> /\ baseDoseErrors(tsProt) = <<>>

\* What holds of the dose checks: the two movie protocols report a missing
\* or zero dose as an error; the tilt-series protocol reports a zero dose
\* and raises TypeError on a dose that is not set.
DoseChecks ==
    tsStage \in {"validated", "validateRaised"} =>
        /\ (tsProt.doApplyDoseFilter /\ tsProt.dose \in {"None", "zero"}) =>
               /\ doseErrors(tsProt) = <<MsgDose>>
               /\ baseDoseErrors(tsProt) = <<MsgBaseDose>>
               /\ tsProt.dose = "zero" => (tsRaised = "" /\ tsErrors = <<MsgTsDose>>)
               /\ tsProt.dose = "None" => tsRaised = "TypeError"
        /\ ~tsProt.doApplyDoseFilter =>
               /\ tsRaised = "" /\ tsErrors = <<>>
               /\ doseErrors(tsProt) = <<>> /\ baseDoseErrors(tsProt) = <<>>

\* ------------------------------------ claims on the streaming protocol
\* C16: _loadInputMovies yields each movie id at most once over all the
\* reads of the input set, and never a movie whose id is in the existing
\* outputMovies set.
C16_YieldedOnceNeverFromOutput ==
    mainpc = "running" =>
        /\ \A i, j \in DOMAIN yielded : yielded[i] = yielded[j] => i = j
        /\ \A i \in DOMAIN yielded :
               yielded[i] \notin outputMovies /\ yielded[i] \in 1..inputSet
        /\ gen.pc = "done" =>
               {yielded[i] : i \in DOMAIN yielded} = (1..inputSet) \ outputMovies

C16_Witness ==
    /\ gen.pc = "done" /\ outputMovies = {1, 3} /\ yielded = <<2, 4>>

\* The files the program wrote for movie m in the run of its batch, {} if
\* the batch has not been run or the run failed.
WrittenFor(m) ==
    UNION {runs[r].written[m] : r \in {q \in DOMAIN runs : m \in DOMAIN runs[q].written}}

\* The movies passed to _updateOutputSets with STREAM_OPEN so far.
Registered == UNION {updates[u].movies : u \in DOMAIN updates}

\* The batches _moveBatchOutput has moved the files of: those it has
\* finished with and the one it holds past the move.
MovedBatches ==
    {b \in DOMAIN batches :
        \/ mover.pc \in {"lock", "crit", "clean"} /\ mover.batch.index = batches[b].index
        \/ /\ \E r \in RunsOf(batches[b].index) : runs[r].result = "ok"
           /\ ~PassedOn(batches[b].index)
           /\ \A i \in DOMAIN proc : proc[i].batch.index # batches[b].index}

\* C17: in _moveBatchOutput an expected file is moved to the extra folder
\* only if it exists in the batch folder, a missing one is skipped without
\* an error, a movie is passed to _updateOutputSets if and only if its log
\* existed and was moved, and _updateOutputSets is not called for a batch
\* with no such movie.
C17_RegisteredIffLogMoved ==
    mainpc \in {"running", "done"} =>
        /\ \A mf \in extraFiles : mf[2] \in WrittenFor(mf[1]) \cap moveBatchFiles(prot)
        /\ \A u \in DOMAIN updates :
               updates[u].state = "STREAM_OPEN" => updates[u].movies # {}
        /\ \A b \in MovedBatches :
               \A k \in DOMAIN batches[b].movies :
                   LET m == batches[b].movies[k]
                   IN  /\ (m \in Registered) <=> ("log" \in WrittenFor(m))
                       /\ (m \in Registered) <=> (<<m, "log">> \in extraFiles)
                       /\ \A f \in moveBatchFiles(prot) :
                              (f \in WrittenFor(m)) <=> (<<m, f>> \in extraFiles)
        /\ Cardinality({u \in DOMAIN updates : updates[u].state = "STREAM_OPEN"})
               = Cardinality({b \in MovedBatches :
                                 \E k \in DOMAIN batches[b].movies :
                                     "log" \in WrittenFor(batches[b].movies[k])})
        /\ \A b \in DOMAIN batches : b \notin MovedBatches =>
               \A k \in DOMAIN batches[b].movies : batches[b].movies[k] \notin Registered

C17_Witness ==
    /\ mainpc = "done" /\ Len(batches) = 2 /\ Len(updates) = 2
    /\ batches[1].movies = <<1>> /\ batches[2].movies = <<2>>
    /\ WrittenFor(1) = Kinds \ {"log"} /\ WrittenFor(2) = Kinds
    /\ Registered = {2} /\ <<1, "log">> \notin extraFiles
    /\ \E f \in Kinds : <<1, f>> \in extraFiles

\* The files of the micrograph outputs the protocol declares.
declaredFiles(p) ==
    (IF createOutputWeightedMicrographs(p) THEN {"DW"} ELSE {})
    \cup (IF createOutputMicrographs(p) THEN {"mic"} ELSE {})

\* C18: every movie the streaming protocol registers has the file of each
\* declared micrograph output in the extra folder when it is registered.
C18_RegisteredHasMicrographFile ==
    \A m \in Registered : \A f \in declaredFiles(prot) : <<m, f>> \in extraFiles

\* What _moveBatchOutput does give a registered movie: its alignment log is
\* in the extra folder, and a declared micrograph file is there exactly when
\* the program wrote it.
RegisteredHasLogFile ==
    \A m \in Registered :
        /\ <<m, "log">> \in extraFiles
        /\ \A f \in declaredFiles(prot) :
               (<<m, f>> \in extraFiles) <=> (f \in WrittenFor(m))

\* The positions of the STREAM_CLOSED updates of the output sets.
ClosedUpdates == {u \in DOMAIN updates : updates[u].state = "STREAM_CLOSED"}

\* C19: the output sets are updated with STREAM_CLOSED exactly once, after
\* every thread of the pipeline has ended, no STREAM_OPEN update follows it,
\* and on a run that has returned it is the last update.
C19_ClosedOnceAndLast ==
    /\ Cardinality(ClosedUpdates) <= 1
    /\ mainpc = "done" <=> ClosedUpdates # {}
    /\ ClosedUpdates # {} =>
           /\ ClosedUpdates = {Len(updates)}
           /\ gen.pc = "done" /\ mover.pc = "exited"
           /\ \A i \in DOMAIN proc : proc[i].pc = "exited"
           /\ outQueue = <<>> /\ genQueue = <<>>

C19_Witness ==
    /\ mainpc = "done" /\ Len(updates) = 3
    /\ updates[1].state = "STREAM_OPEN" /\ updates[2].state = "STREAM_OPEN"
    /\ updates[3].state = "STREAM_CLOSED"

\* ------------- SpecFailure: runs in which the program may fail, both protocols
\* A run of the streaming protocol (ProtMotionCorrTasks) or a run of the
\* steps of ProtMotionCorr.
InitFailure == InitPipeline \/ InitWorker

NextFailure ==
    \/ (mainpc # "off" /\ NextPipeline)
    \/ (mainpc = "off" /\ NextWorker)

\* The steps the threads of a run take; the movies added to the input set
\* and the closing of its stream are the import protocol's.
ThreadSteps ==
    \/ (mainpc # "off" /\ NextPipeline
            /\ inputSet' = inputSet /\ streamClosed' = streamClosed)
    \/ (mainpc = "off" /\ steps # <<>> /\ NextWorker)

\* Threads that can run do run, and the program returns or fails in the end.
SpecFailure == InitFailure /\ [][NextFailure]_vars /\ WF_vars(ThreadSteps)

\* The batches whose run failed.
FailedBatches == {runs[r].index : r \in {q \in DOMAIN runs : runs[q].result = "failed"}}

\* The movie steps of ProtMotionCorr that are over.
MovieStepsOver ==
    {k \in DOMAIN steps : steps[k].name = "processMovieStep" /\ steps[k].status # "new"}

\* A failure in the streaming protocol stays in _processBatch: the processor
\* goes on taking batches, no movie of the failed batch is registered, and
\* when the step returns every batch has been run and the output is closed.
BatchFailureContained ==
    /\ \A i \in DOMAIN proc :
           proc[i].pc = "exited" => (gen.pc = "done" /\ genQueue = <<>>)
    /\ \A b \in DOMAIN batches : batches[b].index \in FailedBatches =>
           \A k \in DOMAIN batches[b].movies : batches[b].movies[k] \notin Registered
    /\ mainpc = "done" =>
           /\ \A b \in DOMAIN batches :
                  \E r \in RunsOf(batches[b].index) : runs[r].result \in {"ok", "failed"}
           /\ \A b \in DOMAIN batches : batches[b].index \notin FailedBatches =>
                  \A k \in DOMAIN batches[b].movies :
                      (batches[b].movies[k] \in Registered)
                          <=> ("log" \in WrittenFor(batches[b].movies[k]))
           /\ ClosedUpdates # {}

\* A failure in _processMovie stays in it: the step does not fail.
MovieFailureContained ==
    \A k \in DOMAIN steps : steps[k].status # "failed"

\* C20: a failure of the program for one batch of the streaming protocol or
\* for one movie in _processMovie is caught and does not propagate: the
\* other batches or movies are still processed, the run finishes and the
\* streaming output is closed, and no movie of a failed batch is registered.
C20_FailureCaughtRunGoesOn ==
    /\ [](BatchFailureContained /\ MovieFailureContained)
    /\ (mainpc = "running" /\ streamClosed) ~> (mainpc = "done")
    /\ (steps # <<>>) ~> (\A k \in DOMAIN steps : steps[k].status = "finished")

C20_Witness ==
    /\ mainpc = "done" /\ Len(batches) = 2
    /\ FailedBatches = {1} /\ Registered = {2}
    /\ runs[2].proc = runs[1].proc

C20_MovieWitness ==
    /\ Len(steps) = 3 /\ \A k \in DOMAIN steps : steps[k].status = "finished"
    /\ Len(threads) = 1

\* C21: when SCIPION_DEBUG_NOCLEAN is off, every batch folder made by
\* _generateBatches has been removed when _processAllMoviesStep returns, the
\* folders of the batches whose run failed included.
C21_NoBatchFolderLeft ==
    (mainpc = "done" /\ ~noClean) => folders = {}

\* What holds of the batch folders: a folder is made for every batch, only
\* _moveBatchOutput removes one, so when the step returns the folders left
\* are those of the failed batches, or all of them in debug mode.
FoldersLeftAreOfFailedBatches ==
    /\ folders \subseteq {batches[b].index : b \in DOMAIN batches}
    /\ mainpc = "done" =>
           folders = IF noClean THEN {batches[b].index : b \in DOMAIN batches}
                     ELSE FailedBatches

\* A counter changes only in a step of the thread that holds the lock, and
\* does not decrease.
CountersChangeUnderLock ==
    /\ processed' # processed =>
           /\ lock \in DOMAIN proc /\ proc[lock].pc = "crit"
           /\ processed' > processed /\ registered' = registered
    /\ registered' # registered =>
           /\ lock = -1 /\ mover.pc = "crit"
           /\ registered' > registered /\ processed' = processed

\* C22: under every interleaving of the processors and the mover,
\* registered <= processed <= the number of movies yielded so far; the two
\* counters never decrease and change only while the lock is held.
C22_CountersOrderedAndLocked ==
    /\ [](mainpc \in {"running", "done"} =>
              /\ registered <= processed /\ processed <= Len(yielded)
              /\ lock # 0 => \/ lock \in DOMAIN proc /\ proc[lock].pc = "crit"
                             \/ lock = -1 /\ mover.pc = "crit")
    /\ [][CountersChangeUnderLock]_vars

C22_Witness ==
    /\ Len(gpus) = 2 /\ Len(yielded) = 2 /\ processed = 1 /\ registered = 0
    /\ (\E i \in DOMAIN proc : proc[i].pc = "lock") /\ lock = -1 /\ mover.pc = "crit"
    /\ Cardinality(mover.newDone) = 1

\* The movies yielded so far.
YieldedSet == {yielded[i] : i \in DOMAIN yielded}

\* The generator stops at the first read that sees the stream closed, and by
\* then it has yielded every input movie that was not in the output before.
LoaderStopsAtClosedRead ==
    /\ gen.pc = "read" => ~gen.closed
    /\ (gen.pc \in {"iter", "done"} /\ gen.closed) =>
           /\ streamClosed /\ gen.snapshot = inputSet
    /\ gen.pc = "done" =>
           /\ gen.closed
           /\ 1..inputSet \subseteq gen.seen
           /\ \A m \in 1..inputSet : m \in YieldedSet \/ m \in outputMovies

\* Every movie yielded is in a batch, and every batch was taken by a processor.
AllYieldedRun ==
    \A m \in YieldedSet :
        \E b \in DOMAIN batches :
            /\ \E k \in DOMAIN batches[b].movies : batches[b].movies[k] = m
            /\ \E r \in RunsOf(batches[b].index) : runs[r].result \in {"ok", "failed"}

\* C23: once the input stream is closed the streaming protocol terminates;
\* _loadInputMovies stops after the first read that sees the stream closed,
\* and every movie of the input set at that read that was not in the output
\* already has been yielded, batched and handed to a processor by the end.
C23_TerminatesWithAllMoviesRun ==
    /\ [](mainpc \in {"running", "done"} => LoaderStopsAtClosedRead)
    /\ [](mainpc = "done" => (gen.pc = "done" /\ AllYieldedRun))
    /\ (mainpc = "running" /\ streamClosed)
           ~> (mainpc = "done" /\ gen.pc = "done" /\ AllYieldedRun)

C23_Witness ==
    /\ mainpc = "done" /\ batchSize = 2 /\ inputSet = 2 /\ YieldedSet = {2}
    /\ Len(batches) = 1 /\ batches[1].movies = <<2>>
    /\ Len(runs) = 1 /\ runs[1].result = "ok"

\* ------------------- SpecExtra: the command text and the user's extraParams2
\* A text is a sequence of pieces: the blank, or a piece without blanks.
Blank == " "

TsClass == "ProtTsMotionCorr"

\* The texts extraParams2 ranges over.
ExtraTexts == SeqsUpTo({Blank, "-Bft", "100"}, MaxExtra)

\* '%s %s' % (k, v)
argText(kv) == <<kv[1], Blank, kv[2]>>

RECURSIVE joinArgs(_)
\* ' '.join(['%s %s' % (k, v) for k, v in argsDict.items()])
joinArgs(items) ==
    IF items = <<>> THEN <<>>
    ELSE IF Len(items) = 1 THEN argText(items[1])
    ELSE argText(Head(items)) \o <<Blank>> \o joinArgs(Tail(items))

\* The last entries of argsDict, in the order they were put in; the entries
\* before them are joined in the same way.
argItems(cls) ==
    IF cls = TasksClass
    THEN << <<"-Serial", "1">>, <<"-InMrc", "./">>, <<"-OutMrc", "output_">> >>
    ELSE IF cls = McClass
    THEN << <<"-OutMrc", "mic.mrc">>, <<"-Throw", "0">>, <<"-Trunc", "0">>,
            <<"-LogDir", "./">> >>
    ELSE << <<"-OutMrc", "ti.mrc">>, <<"-Throw", "0">>, <<"-Trunc", "0">>,
            <<"-LogDir", "./">> >>

\* The text each protocol hands to runJob: ProtMotionCorrTasks._getCmd ends
\* with cmd += self.extraParams2.get(); _processMovie and _processTiltImageM
\* end with args += ' ' + self.extraParams2.get().
commandText(cls, extra) ==
    IF cls = TasksClass
    THEN joinArgs(argItems(cls)) \o extra
    ELSE IF cls = McClass
    THEN <<Blank, "-InMrc", Blank, "movie", Blank>> \o joinArgs(argItems(cls))
             \o <<Blank>> \o extra
    ELSE <<Blank, "-InMrc", Blank, "ti", Blank>> \o joinArgs(argItems(cls))
             \o <<Blank, "-Gpu", Blank, "%(GPU)s">> \o <<Blank>> \o extra

RECURSIVE Words(_)
\* The arguments the shell makes of a text: it is cut at the blanks, pieces
\* with no blank between them are one argument.
Words(text) ==
    IF text = <<>> THEN <<>>
    ELSE IF Head(text) = Blank THEN Words(Tail(text))
    ELSE LET rest == Words(Tail(text))
         IN  IF Len(text) > 1 /\ text[2] # Blank
             THEN << <<Head(text)>> \o Head(rest) >> \o Tail(rest)
             ELSE << <<Head(text)>> >> \o rest

InitExtra ==
    /\ xpClass \in {McClass, TasksClass, TsClass}
    /\ extraParams2 \in ExtraTexts
    /\ cmdLine = <<>> /\ argv = <<>> /\ xppc = "new"
    /\ prot = DefaultProt /\ formFrameN = 0
    /\ CmdIdle /\ VerIdle /\ PipeIdle /\ ConvIdle /\ WtIdle /\ TsIdle

\* The protocol builds the text of its command.
BuildCommand ==
    /\ xppc = "new"
    /\ cmdLine' = commandText(xpClass, extraParams2)
    /\ xppc' = "built"
    /\ UNCHANGED <<xpClass, extraParams2, argv>>

\* runJob starts the program with the arguments of the text.
RunJob ==
    /\ xppc = "built"
    /\ argv' = Words(cmdLine)
    /\ xppc' = "run"
    /\ UNCHANGED <<xpClass, extraParams2, cmdLine>>

NextExtra ==
    \/ (BuildCommand /\ UNCHANGED <<cmdVars, verVars, pipeVars, convVars, wtVars, tsVars>>)
    \/ (RunJob /\ UNCHANGED <<cmdVars, verVars, pipeVars, convVars, wtVars, tsVars>>)

SpecExtra == InitExtra /\ [][NextExtra]_vars

\* The arguments the protocol builds itself, without any of the user's.
OwnArgs == Words(commandText(xpClass, <<>>))

\* C24: in every protocol the user's extraParams2 come after whitespace, as
\* arguments of their own: every option and value the protocol built, the
\* '-OutMrc output_' prefix of the streaming protocol among them, is the
\* same as without extraParams2.
C24_ExtraParamsAreSeparateArguments ==
    xppc = "run" => argv = OwnArgs \o Words(extraParams2)

\* What holds of extraParams2: ProtMotionCorr and ProtTsMotionCorr put a
\* blank before them; ProtMotionCorrTasks does not, so unless the user's text
\* is empty or starts with a blank its first piece becomes part of the last
\* value the protocol built, the one of -OutMrc.
ExtraParamsSeparateUnlessTasks ==
    xppc = "run" =>
        IF xpClass # TasksClass \/ extraParams2 = <<>> \/ Head(extraParams2) = Blank
        THEN argv = OwnArgs \o Words(extraParams2)
        ELSE /\ Len(argv) = Len(OwnArgs) + Len(Words(extraParams2)) - 1
             /\ argv[Len(OwnArgs) - 1] = <<"-OutMrc">>
             /\ argv[Len(OwnArgs)] = <<"output_">> \o Head(Words(extraParams2))

====
